---- MODULE Spec2Model ----
(***************************************************************************)
(* Model of the pyignite API layer: the per-operation wrapper functions of *)
(* pyignite/api/key_value.py and pyignite/api/cache_config.py, together    *)
(* with the collaborators they call (Query/ConfigQuery, Response,          *)
(* APIResult, Connection, cache_id, prop_map), which live outside the two  *)
(* files and are modelled from the design document.                        *)
(*                                                                         *)
(* Every wrapper has the same five steps, each one action of the model:    *)
(*   FromPython  query_struct = ...Query([...]); query_struct.from_python  *)
(*   ConnSend    conn.send(send_buffer)                                    *)
(*   Parse       response_struct.parse(conn)                               *)
(*   MakeResult  response = ...from_buffer_copy(...); APIResult(response)  *)
(*   Finish      if result.status != 0: return result;                     *)
(*               result.value = ...; return result                         *)
(***************************************************************************)
EXTENDS Integers, Sequences, FiniteSets, TLC

(***************************************************************************)
(* Bounds of the model.                                                    *)
(***************************************************************************)
NumCallers == 2
MaxCalls == 2
MaxProps == 2
MaxNameLen == 2

Callers == 1..NumCallers

(***************************************************************************)
(* Python values, tagged with their runtime type.  Text is a sequence of   *)
(* code units.                                                             *)
(***************************************************************************)
None == [t |-> "NoneType", v |-> 0]
PyInt(n) == [t |-> "int", v |-> n]
PyBool(b) == [t |-> "bool", v |-> b]
PyStr(s) == [t |-> "str", v |-> s]
PyList(s) == [t |-> "list", v |-> s]
PyDict(s) == [t |-> "dict", v |-> s]
PyTuple(s) == [t |-> "tuple", v |-> s]
(* an object of a class the data types do not know *)
PyObject == [t |-> "object", v |-> 0]

EmptyText == << >>

(***************************************************************************)
(* Ordered dictionaries (Python dict keeps insertion order): a sequence of *)
(* <<key, value>> pairs with distinct keys.                                *)
(***************************************************************************)
DictKeys(d) == {d[i][1] : i \in 1..Len(d)}

DictGet(d, k) == (CHOOSE i \in 1..Len(d) : d[i][1] = k) 

DictLookup(d, k) == d[DictGet(d, k)][2]

DictSet(d, k, v) ==
  IF k \in DictKeys(d)
    THEN [i \in 1..Len(d) |-> IF d[i][1] = k THEN <<k, v>> ELSE d[i]]
    ELSE Append(d, <<k, v>>)

(***************************************************************************)
(* pyignite.utils.cache_id: the cache name hashed as Java's String         *)
(* hashCode does, or the number itself when the caller holds one.          *)
(***************************************************************************)
(* A 32-bit accumulator is kept as two 16-bit halves, <<high, low>>: the  *)
(* model checker's integers are 32 bits wide themselves.                  *)
TwoTo16 == 65536
TwoTo15 == 32768

(* HashStep as it would be if the carry out of the low half were lost.     *)
HashStep_carry_lost(h, code_unit) ==
  LET low == 31 * h[2] + code_unit
  IN << (31 * h[1]) % TwoTo16, low % TwoTo16 >>

(* h = 31 * h + code_unit, modulo 2^32 *)
HashStep(h, code_unit) ==
  LET low == 31 * h[2] + code_unit
  IN << (31 * h[1] + (low \div TwoTo16)) % TwoTo16, low % TwoTo16 >>

(* the accumulator read as a signed 32-bit integer *)
ToInt32(h) ==
  IF h[1] >= TwoTo15 THEN (h[1] - TwoTo16) * TwoTo16 + h[2]
  ELSE h[1] * TwoTo16 + h[2]

RECURSIVE HashLoop(_, _)
HashLoop(s, h) ==
  IF s = << >> THEN h ELSE HashLoop(Tail(s), HashStep(h, Head(s)))

hashcode(s) == ToInt32(HashLoop(s, <<0, 0>>))

cache_id(cache) == IF cache.t = "str" THEN hashcode(cache.v) ELSE cache.v

Truthy(x) ==
  CASE x.t = "NoneType" -> FALSE
    [] x.t = "bool" -> x.v
    [] x.t = "int" -> x.v # 0
    [] OTHER -> Len(x.v) > 0

(***************************************************************************)
(* Bytes on the wire.  All multi-byte integers are little-endian, in two's *)
(* complement.                                                             *)
(***************************************************************************)
RECURSIVE LEBytes(_, _)
LEBytes(n, width) ==
  IF width = 0 THEN << >>
  ELSE << (n % 256) >> \o LEBytes(n \div 256, width - 1)

ToLE(n, width) ==
  IF n >= 0 THEN LEBytes(n, width)
  ELSE [i \in 1..width |-> 255 - LEBytes(0 - (n + 1), width)[i]]

RECURSIVE LEValue(_)
LEValue(b) == IF b = << >> THEN 0 ELSE Head(b) + 256 * LEValue(Tail(b))

FromLE(b) ==
  IF b[Len(b)] >= 128
    THEN (0 - LEValue([i \in 1..Len(b) |-> 255 - b[i]])) - 1
    ELSE LEValue(b)

(* FitsWidth as it would be if the ranges were taken as unsigned.         *)
FitsWidth_unsigned(n, width) ==
  CASE width = 1 -> n >= 0 /\ n <= 255
    [] width = 2 -> n >= 0 /\ n <= 65535
    [] OTHER -> TRUE

(* whether n fits a signed integer of that many bytes *)
FitsWidth(n, width) ==
  CASE width = 1 -> n >= -128 /\ n <= 127
    [] width = 2 -> n >= -32768 /\ n <= 32767
    [] OTHER -> TRUE

(***************************************************************************)
(* UTF-8, for the code units of the basic plane.                           *)
(***************************************************************************)
Utf8Unit(c) ==
  IF c < 128 THEN << c >>
  ELSE IF c < 2048 THEN << 192 + (c \div 64), 128 + (c % 64) >>
  ELSE << 224 + (c \div 4096), 128 + ((c \div 64) % 64), 128 + (c % 64) >>

RECURSIVE Utf8Encode(_)
Utf8Encode(text) ==
  IF text = << >> THEN << >>
  ELSE Utf8Unit(Head(text)) \o Utf8Encode(Tail(text))

RECURSIVE Utf8Decode(_)
Utf8Decode(b) ==
  IF b = << >> THEN << >>
  ELSE IF b[1] < 128 THEN << b[1] >> \o Utf8Decode(SubSeq(b, 2, Len(b)))
  ELSE IF b[1] < 224
    THEN << (b[1] - 192) * 64 + (b[2] - 128) >>
           \o Utf8Decode(SubSeq(b, 3, Len(b)))
  ELSE << (b[1] - 224) * 4096 + (b[2] - 128) * 64 + (b[3] - 128) >>
         \o Utf8Decode(SubSeq(b, 4, Len(b)))

(***************************************************************************)
(* The data types (TypeDescriptors): the one-byte code that precedes every *)
(* encoded value, and the width of the integral ones.                      *)
(***************************************************************************)
TypeCode ==
  [Byte |-> 1, Short |-> 2, Int |-> 3, Long |-> 4, Bool |-> 8, String |-> 9,
   PeekModes |-> 12, StringArray |-> 20, AnyDataArray |-> 23, Map |-> 25,
   cache_config_struct |-> 26, Null |-> 101]

IntWidth == [Byte |-> 1, Short |-> 2, Int |-> 4, Long |-> 8]

ElementType ==
  [PeekModes |-> "Byte", StringArray |-> "String",
   AnyDataArray |-> "AnyDataObject"]

MapTypes == {"Map", "cache_config_struct"}

(* the ordering-mode byte of a map: a hash map *)
MapMode == 1

(* AnyDataObject: the type of a value that has no declared type, by its    *)
(* runtime shape; an integer takes the smallest type that holds it.        *)
AnyType(v) ==
  CASE v.t = "NoneType" -> "Null"
    [] v.t = "bool" -> "Bool"
    [] v.t = "int" ->
         IF FitsWidth(v.v, 1) THEN "Byte"
         ELSE IF FitsWidth(v.v, 2) THEN "Short" ELSE "Int"
    [] v.t = "str" -> "String"
    [] v.t = "list" -> "AnyDataArray"
    [] v.t = "dict" -> "Map"

(***************************************************************************)
(* Whether a value can be encoded as a type.  from_python raises an        *)
(* EncodeError for one that cannot: a value of a shape no type takes, or   *)
(* an integer too large for the declared type.                             *)
(***************************************************************************)
RECURSIVE Encodable(_, _)
Encodable(type, v) ==
  CASE type = "AnyDataObject" ->
         /\ v.t \in {"NoneType", "bool", "int", "str", "list", "dict"}
         /\ Encodable(AnyType(v), v)
    [] type = "Null" -> v.t = "NoneType"
    [] type = "Bool" -> v.t \in {"bool", "int"}
    [] type \in DOMAIN IntWidth ->
         v.t = "int" /\ FitsWidth(v.v, IntWidth[type])
    [] type = "String" -> v.t = "str"
    [] type \in DOMAIN ElementType ->
         /\ v.t \in {"list", "tuple"}
         /\ \A i \in 1..Len(v.v) : Encodable(ElementType[type], v.v[i])
    [] type \in MapTypes ->
         /\ v.t = "dict"
         /\ \A i \in 1..Len(v.v) :
              /\ Encodable("AnyDataObject", v.v[i][1])
              /\ Encodable("AnyDataObject", v.v[i][2])

(***************************************************************************)
(* encode: the type code, then the value.  A declared type decides the     *)
(* encoding; AnyDataObject resolves the type from the value first.         *)
(***************************************************************************)
RECURSIVE Encode(_, _)
RECURSIVE EncodeItems(_, _)
RECURSIVE EncodeEntries(_)

EncodeItems(type, items) ==
  IF items = << >> THEN << >>
  ELSE Encode(type, Head(items)) \o EncodeItems(type, Tail(items))

EncodeEntries(entries) ==
  IF entries = << >> THEN << >>
  ELSE Encode("AnyDataObject", Head(entries)[1])
         \o Encode("AnyDataObject", Head(entries)[2])
         \o EncodeEntries(Tail(entries))

Encode(type, v) ==
  CASE type = "AnyDataObject" -> Encode(AnyType(v), v)
    [] type = "Null" -> << TypeCode[type] >>
    [] type = "Bool" -> << TypeCode[type], IF Truthy(v) THEN 1 ELSE 0 >>
    [] type \in DOMAIN IntWidth ->
         << TypeCode[type] >> \o ToLE(v.v, IntWidth[type])
    [] type = "String" ->
         LET b == Utf8Encode(v.v)
         IN << TypeCode[type] >> \o ToLE(Len(b), 4) \o b
    [] type \in DOMAIN ElementType ->
         << TypeCode[type] >> \o ToLE(Len(v.v), 4)
           \o EncodeItems(ElementType[type], v.v)
    [] type \in MapTypes ->
         << TypeCode[type] >> \o ToLE(Len(v.v), 4) \o << MapMode >>
           \o EncodeEntries(v.v)

(***************************************************************************)
(* decode: the value that starts at position pos of the buffer and the     *)
(* position after it, or a DecodeError: the buffer ends too early, the     *)
(* type code is not in the table, or it is not the code of the declared    *)
(* type.                                                                   *)
(***************************************************************************)
DecodeErrors ==
  {"DecodeError: truncated buffer", "DecodeError: unknown type-code",
   "DecodeError: unexpected type-code", "DecodeError: trailing bytes"}

DecodeFailure(why) == [ok |-> FALSE, why |-> why]

TruncatedBuffer == DecodeFailure("DecodeError: truncated buffer")

Decoded(type, value, pos) ==
  [ok |-> TRUE, type |-> type, value |-> value, pos |-> pos]

KnownCode(code) == \E t \in DOMAIN TypeCode : TypeCode[t] = code

TypeOfCode(code) == CHOOSE t \in DOMAIN TypeCode : TypeCode[t] = code

RECURSIVE Decode(_, _, _)
RECURSIVE DecodeItems(_, _, _, _, _)
RECURSIVE DecodeEntries(_, _, _, _)

DecodeItems(type, buf, pos, n, items) ==
  IF n = 0 THEN [ok |-> TRUE, items |-> items, pos |-> pos]
  ELSE LET d == Decode(type, buf, pos)
       IN IF ~d.ok THEN d
          ELSE DecodeItems(type, buf, d.pos, n - 1, Append(items, d.value))

DecodeEntries(buf, pos, n, entries) ==
  IF n = 0 THEN [ok |-> TRUE, items |-> entries, pos |-> pos]
  ELSE LET k == Decode("AnyDataObject", buf, pos)
       IN IF ~k.ok THEN k
          ELSE LET v == Decode("AnyDataObject", buf, k.pos)
               IN IF ~v.ok THEN v
                  ELSE DecodeEntries(buf, v.pos, n - 1,
                                     Append(entries, <<k.value, v.value>>))

Decode(type, buf, pos) ==
  IF pos > Len(buf) THEN TruncatedBuffer
  ELSE IF ~KnownCode(buf[pos])
    THEN DecodeFailure("DecodeError: unknown type-code")
  ELSE LET wire == TypeOfCode(buf[pos])
           last == Len(buf)
       IN IF type # "AnyDataObject" /\ wire # type
            THEN DecodeFailure("DecodeError: unexpected type-code")
          ELSE CASE wire = "Null" -> Decoded(wire, None, pos + 1)
            [] wire = "Bool" ->
                 IF pos + 1 > last THEN TruncatedBuffer
                 ELSE Decoded(wire, PyBool(buf[pos + 1] # 0), pos + 2)
            [] wire \in DOMAIN IntWidth ->
                 LET w == IntWidth[wire]
                 IN IF pos + w > last THEN TruncatedBuffer
                    ELSE Decoded(wire,
                                 PyInt(FromLE(SubSeq(buf, pos + 1, pos + w))),
                                 pos + w + 1)
            [] wire = "String" ->
                 IF pos + 4 > last THEN TruncatedBuffer
                 ELSE LET n == FromLE(SubSeq(buf, pos + 1, pos + 4))
                      IN IF n < 0 \/ pos + 4 + n > last THEN TruncatedBuffer
                         ELSE Decoded(wire,
                                PyStr(Utf8Decode(
                                        SubSeq(buf, pos + 5, pos + 4 + n))),
                                pos + 5 + n)
            [] wire \in DOMAIN ElementType ->
                 IF pos + 4 > last THEN TruncatedBuffer
                 ELSE LET n == FromLE(SubSeq(buf, pos + 1, pos + 4))
                          d == DecodeItems(ElementType[wire], buf, pos + 5,
                                           n, << >>)
                      IN IF n < 0 THEN TruncatedBuffer
                         ELSE IF ~d.ok THEN d
                         ELSE Decoded(wire, PyList(d.items), d.pos)
            [] wire \in MapTypes ->
                 IF pos + 5 > last THEN TruncatedBuffer
                 ELSE LET n == FromLE(SubSeq(buf, pos + 1, pos + 4))
                          d == DecodeEntries(buf, pos + 6, n, << >>)
                      IN IF n < 0 THEN TruncatedBuffer
                         ELSE IF ~d.ok THEN d
                         ELSE Decoded(wire, PyDict(d.items), d.pos)

(***************************************************************************)
(* The wrappers.  For each one: its operation code, the query class it     *)
(* derives from, the schema of its response, and what it stores in         *)
(* result.value on success:                                                *)
(*   "none"   nothing (the result is returned as constructed)              *)
(*   "whole"  response_struct.to_python(response)                          *)
(*   "field"  response_struct.to_python(response)[field]                   *)
(***************************************************************************)
Wrapper(code, base, shape, resp, assign, field) ==
  [op_code |-> code, base |-> base, shape |-> shape, response |-> resp,
   assign |-> assign, field |-> field]

OpTable ==
  [cache_put |->
     Wrapper("OP_CACHE_PUT", "Query", "kv", << >>, "whole", ""),
   cache_get |->
     Wrapper("OP_CACHE_GET", "Query", "k",
             << <<"value", "AnyDataObject">> >>, "field", "value"),
   cache_get_all |->
     Wrapper("OP_CACHE_GET_ALL", "Query", "keys",
             << <<"data", "Map">> >>, "field", "data"),
   cache_put_all |->
     Wrapper("OP_CACHE_PUT_ALL", "Query", "data", << >>, "none", ""),
   cache_contains_key |->
     Wrapper("OP_CACHE_CONTAINS_KEY", "Query", "k",
             << <<"value", "Bool">> >>, "field", "value"),
   cache_contains_keys |->
     Wrapper("OP_CACHE_CONTAINS_KEYS", "Query", "keys",
             << <<"value", "Bool">> >>, "field", "value"),
   cache_get_and_put |->
     Wrapper("OP_CACHE_GET_AND_PUT", "Query", "kv",
             << <<"value", "AnyDataObject">> >>, "field", "value"),
   cache_get_and_replace |->
     Wrapper("OP_CACHE_GET_AND_REPLACE", "Query", "kv",
             << <<"value", "AnyDataObject">> >>, "field", "value"),
   cache_get_and_remove |->
     Wrapper("OP_CACHE_GET_AND_REMOVE", "Query", "k",
             << <<"value", "AnyDataObject">> >>, "field", "value"),
   cache_put_if_absent |->
     Wrapper("OP_CACHE_PUT_IF_ABSENT", "Query", "kv",
             << <<"success", "Bool">> >>, "field", "success"),
   cache_get_and_put_if_absent |->
     Wrapper("OP_CACHE_GET_AND_PUT_IF_ABSENT", "Query", "kv",
             << <<"value", "AnyDataObject">> >>, "field", "value"),
   cache_replace |->
     Wrapper("OP_CACHE_REPLACE", "Query", "kv",
             << <<"success", "Bool">> >>, "field", "success"),
   cache_replace_if_equals |->
     Wrapper("OP_CACHE_REPLACE_IF_EQUALS", "Query", "ksv",
             << <<"success", "Bool">> >>, "field", "success"),
   cache_clear |->
     Wrapper("OP_CACHE_CLEAR", "Query", "hf", << >>, "none", ""),
   cache_clear_key |->
     Wrapper("OP_CACHE_CLEAR_KEY", "Query", "k", << >>, "none", ""),
   cache_clear_keys |->
     Wrapper("OP_CACHE_CLEAR_KEYS", "Query", "keys", << >>, "none", ""),
   cache_remove_key |->
     Wrapper("OP_CACHE_REMOVE_KEY", "Query", "k",
             << <<"success", "Bool">> >>, "field", "success"),
   cache_remove_if_equals |->
     Wrapper("OP_CACHE_REMOVE_IF_EQUALS", "Query", "ks",
             << <<"success", "Bool">> >>, "field", "success"),
   cache_remove_keys |->
     Wrapper("OP_CACHE_REMOVE_KEYS", "Query", "keys", << >>, "none", ""),
   cache_remove_all |->
     Wrapper("OP_CACHE_REMOVE_ALL", "Query", "hf", << >>, "none", ""),
   cache_get_size |->
     Wrapper("OP_CACHE_GET_SIZE", "Query", "size",
             << <<"count", "Long">> >>, "field", "count"),
   cache_get_configuration |->
     Wrapper("OP_CACHE_GET_CONFIGURATION", "Query", "hflags",
             << <<"cache_config", "cache_config_struct">> >>,
             "field", "cache_config"),
   cache_create |->
     Wrapper("OP_CACHE_CREATE_WITH_NAME", "Query", "name",
             << >>, "none", ""),
   cache_get_or_create |->
     Wrapper("OP_CACHE_GET_OR_CREATE_WITH_NAME", "Query", "name",
             << >>, "none", ""),
   cache_destroy |->
     Wrapper("OP_CACHE_DESTROY", "Query", "h", << >>, "none", ""),
   cache_get_names |->
     Wrapper("OP_CACHE_GET_NAMES", "Query", "empty",
             << <<"cache_names", "StringArray">> >>, "field", "cache_names"),
   cache_create_with_config |->
     Wrapper("OP_CACHE_CREATE_WITH_CONFIGURATION", "ConfigQuery", "create",
             << >>, "none", ""),
   cache_get_or_create_with_config |->
     Wrapper("OP_CACHE_GET_OR_CREATE_WITH_CONFIGURATION", "ConfigQuery",
             "get_or_create", << >>, "none", "")]

Ops == DOMAIN OpTable

ConfigOps == {"cache_create_with_config", "cache_get_or_create_with_config"}

(* the wrappers of key_value.py: their requests start with hash_code, flag *)
KeyValueOps ==
  {op \in Ops : OpTable[op].shape \in {"k", "kv", "ksv", "ks", "keys", "data",
                                        "hf", "size"}}

(***************************************************************************)
(* pyignite.datatypes.cache_properties.prop_map: the data type of a cache  *)
(* property, by property code.  A code without an entry raises.            *)
(***************************************************************************)
PROP_NAME == 0
PROP_CACHE_MODE == 1
PROP_BACKUPS_NUMBER == 3

PropTable ==
  << <<PROP_NAME, "String">>, <<PROP_CACHE_MODE, "Int">>,
     <<PROP_BACKUPS_NUMBER, "Int">> >>

KnownProp(prop_code) == prop_code \in DictKeys(PropTable)

prop_map(prop_code) == DictLookup(PropTable, prop_code)

(* 'property_{}'.format(i) *)
PropName(i) ==
  << "property_0", "property_1", "property_2", "property_3",
     "property_4", "property_5" >>[i + 1]

(***************************************************************************)
(* The arguments of a call.  A hint is a type name, or "None".             *)
(***************************************************************************)
DefaultArgs ==
  [cache |-> PyStr(<<99>>), key |-> PyStr(<<107>>), value |-> PyInt(42),
   sample |-> PyInt(41), keys |-> PyList(<< PyStr(<<107>>) >>),
   pairs |-> PyDict(<< <<PyStr(<<107>>), PyInt(42)>> >>),
   key_hint |-> "None", value_hint |-> "None", sample_hint |-> "None",
   binary |-> PyBool(FALSE), peek_modes |-> PyInt(0), flags |-> PyInt(0),
   name |-> PyStr(<<99>>), cache_props |-> << >>, query_id |-> None]

(* key_hint or AnyDataObject *)
HintOr(hint, type) == IF hint = "None" THEN type ELSE hint

(* peek_modes == 0, which holds of False as well *)
EqualsZero(x) == x \in {PyInt(0), PyBool(FALSE)}

(* NormalizePeekModes as it would be without the case for 0. *)
NormalizePeekModes_zero_kept(peek_modes) ==
  IF peek_modes.t \notin {"list", "tuple"}
    THEN PyList(<< peek_modes >>)
    ELSE peek_modes

(* cache_get_size: a scalar peek_modes becomes a list, 0 the empty one *)
NormalizePeekModes(peek_modes) ==
  IF peek_modes.t \notin {"list", "tuple"}
    THEN IF EqualsZero(peek_modes) THEN PyList(<< >>)
         ELSE PyList(<< peek_modes >>)
    ELSE peek_modes

(***************************************************************************)
(* The field list each wrapper gives to its query class, by the shape of   *)
(* its request.                                                            *)
(***************************************************************************)
HashFlag == << <<"hash_code", "Int">>, <<"flag", "Byte">> >>

QuerySchema(shape, a) ==
  CASE shape = "k" ->
         HashFlag \o << <<"key", HintOr(a.key_hint, "AnyDataObject")>> >>
    [] shape = "kv" ->
         HashFlag \o << <<"key", HintOr(a.key_hint, "AnyDataObject")>>,
                        <<"value", HintOr(a.value_hint, "AnyDataObject")>> >>
    [] shape = "ksv" ->
         HashFlag \o << <<"key", HintOr(a.key_hint, "AnyDataObject")>>,
                        <<"sample", HintOr(a.sample_hint, "AnyDataObject")>>,
                        <<"value", HintOr(a.value_hint, "AnyDataObject")>> >>
    [] shape = "ks" ->
         HashFlag \o << <<"key", HintOr(a.key_hint, "AnyDataObject")>>,
                        <<"sample", HintOr(a.sample_hint, "AnyDataObject")>> >>
    [] shape = "keys" -> HashFlag \o << <<"keys", "AnyDataArray">> >>
    [] shape = "data" -> HashFlag \o << <<"data", "Map">> >>
    [] shape = "hf" -> HashFlag
    [] shape = "size" -> HashFlag \o << <<"peek_modes", "PeekModes">> >>
    [] shape = "hflags" -> << <<"hash_code", "Int">>, <<"flags", "Byte">> >>
    [] shape = "name" -> << <<"cache_name", "String">> >>
    [] shape = "h" -> << <<"hash_code", "Int">> >>
    [] shape = "empty" -> << >>

(***************************************************************************)
(* The dictionary of values each wrapper gives to from_python.             *)
(***************************************************************************)
(* the decimal text of a number, as str() gives it *)
RECURSIVE DecimalText(_)
DecimalText(n) ==
  IF n < 0 THEN << 45 >> \o DecimalText(0 - n)
  ELSE IF n < 10 THEN << 48 + n >>
  ELSE DecimalText(n \div 10) \o << 48 + (n % 10) >>

(* HashFlagValues as it would be if a cache given by number were hashed    *)
(* like a name.                                                            *)
HashFlagValues_always_hashed(a) ==
  << <<"hash_code",
       PyInt(hashcode(IF a.cache.t = "str" THEN a.cache.v
                      ELSE DecimalText(a.cache.v)))>>,
     <<"flag", PyInt(IF Truthy(a.binary) THEN 1 ELSE 0)>> >>

(* HashFlagValues as it would be if binary were passed on as the flag      *)
(* (a bool as the integer it is in Python).                                *)
HashFlagValues_flag_as_given(a) ==
  << <<"hash_code", PyInt(cache_id(a.cache))>>,
     <<"flag", IF a.binary.t = "bool"
                 THEN PyInt(IF a.binary.v THEN 1 ELSE 0)
                 ELSE a.binary>> >>

HashFlagValues(a) ==
  << <<"hash_code", PyInt(cache_id(a.cache))>>,
     <<"flag", PyInt(IF Truthy(a.binary) THEN 1 ELSE 0)>> >>

QueryValues(shape, a) ==
  CASE shape = "k" -> HashFlagValues(a) \o << <<"key", a.key>> >>
    [] shape = "kv" ->
         HashFlagValues(a) \o << <<"key", a.key>>, <<"value", a.value>> >>
    [] shape = "ksv" ->
         HashFlagValues(a) \o << <<"key", a.key>>, <<"sample", a.sample>>,
                                 <<"value", a.value>> >>
    [] shape = "ks" ->
         HashFlagValues(a) \o << <<"key", a.key>>, <<"sample", a.sample>> >>
    [] shape = "keys" -> HashFlagValues(a) \o << <<"keys", a.keys>> >>
    [] shape = "data" -> HashFlagValues(a) \o << <<"data", a.pairs>> >>
    [] shape = "hf" -> HashFlagValues(a)
    [] shape = "size" ->
         HashFlagValues(a)
           \o << <<"peek_modes", NormalizePeekModes(a.peek_modes)>> >>
    [] shape = "hflags" ->
         << <<"hash_code", PyInt(cache_id(a.cache))>>, <<"flags", a.flags>> >>
    [] shape = "name" -> << <<"cache_name", a.name>> >>
    [] shape = "h" -> << <<"hash_code", PyInt(cache_id(a.cache))>> >>
    [] shape = "empty" -> << >>

(***************************************************************************)
(* cache_create_with_config: the loop over cache_props.items() that fills  *)
(* prop_types and prop_values, then the parameter count and the field      *)
(* list.  cache_props is the dictionary in the order it was filled.        *)
(* prop_map raises for a code it does not know, which ends the call.       *)
(***************************************************************************)
(* The loop as it would be if a property without a table entry were left   *)
(* out instead of ending the call.                                         *)
RECURSIVE create_loop_skip_unknown(_, _, _, _)
create_loop_skip_unknown(cache_props, i, prop_types, prop_values) ==
  IF i >= Len(cache_props)
    THEN [raised |-> "None", prop_types |-> prop_types,
          prop_values |-> prop_values]
    ELSE LET prop_code == cache_props[i + 1][1]
             prop_value == cache_props[i + 1][2]
             prop_name == PropName(i)
         IN IF ~KnownProp(prop_code)
              THEN create_loop_skip_unknown(cache_props, i + 1,
                     prop_types, prop_values)
              ELSE create_loop_skip_unknown(cache_props, i + 1,
                     DictSet(prop_types, prop_name, prop_map(prop_code)),
                     DictSet(prop_values, prop_name, prop_value))

RECURSIVE create_loop(_, _, _, _)
create_loop(cache_props, i, prop_types, prop_values) ==
  IF i >= Len(cache_props)
    THEN [raised |-> "None", prop_types |-> prop_types,
          prop_values |-> prop_values]
    ELSE LET prop_code == cache_props[i + 1][1]
             prop_value == cache_props[i + 1][2]
             prop_name == PropName(i)
         IN IF ~KnownProp(prop_code)
              THEN [raised |-> "UnknownPropertyError",
                    prop_types |-> prop_types, prop_values |-> prop_values]
              ELSE create_loop(cache_props, i + 1,
                     DictSet(prop_types, prop_name, prop_map(prop_code)),
                     DictSet(prop_values, prop_name, prop_value))

(* The field list as it would be with the parameter count put after the   *)
(* properties.                                                             *)
cache_create_with_config_query_count_last(cache_props) ==
  LET l == create_loop(cache_props, 0, << >>, << >>)
      prop_values == DictSet(l.prop_values, "param_count",
                             PyInt(Len(cache_props)))
  IN [raised |-> l.raised,
      schema |-> l.prop_types \o << <<"param_count", "Short">> >>,
      values |-> prop_values]

cache_create_with_config_query(cache_props) ==
  LET l == create_loop(cache_props, 0, << >>, << >>)
      prop_values == DictSet(l.prop_values, "param_count",
                             PyInt(Len(cache_props)))
  IN [raised |-> l.raised,
      schema |-> << <<"param_count", "Short">> >> \o l.prop_types,
      values |-> prop_values]

(***************************************************************************)
(* cache_get_or_create_with_config: the same steps, written out again in   *)
(* that function.                                                          *)
(***************************************************************************)
RECURSIVE get_or_create_loop(_, _, _, _)
get_or_create_loop(cache_props, i, prop_types, prop_values) ==
  IF i >= Len(cache_props)
    THEN [raised |-> "None", prop_types |-> prop_types,
          prop_values |-> prop_values]
    ELSE LET prop_code == cache_props[i + 1][1]
             prop_value == cache_props[i + 1][2]
             prop_name == PropName(i)
         IN IF ~KnownProp(prop_code)
              THEN [raised |-> "UnknownPropertyError",
                    prop_types |-> prop_types, prop_values |-> prop_values]
              ELSE get_or_create_loop(cache_props, i + 1,
                     DictSet(prop_types, prop_name, prop_map(prop_code)),
                     DictSet(prop_values, prop_name, prop_value))

(* The properties in increasing order of their codes. *)
RECURSIVE SortedByCode(_)
SortedByCode(items) ==
  IF items = << >> THEN << >>
  ELSE LET least == CHOOSE i \in 1..Len(items) :
                      \A j \in 1..Len(items) : items[i][1] <= items[j][1]
       IN << items[least] >>
            \o SortedByCode(SubSeq(items, 1, least - 1)
                              \o SubSeq(items, least + 1, Len(items)))

(* The query as it would be if the properties were taken in the order of   *)
(* their codes.                                                            *)
cache_get_or_create_with_config_query_sorted(cache_props) ==
  LET l == get_or_create_loop(SortedByCode(cache_props), 0, << >>, << >>)
      prop_values == DictSet(l.prop_values, "param_count",
                             PyInt(Len(cache_props)))
  IN [raised |-> l.raised,
      schema |-> << <<"param_count", "Short">> >> \o l.prop_types,
      values |-> prop_values]

(* The query as it would be if this copy declared the parameter count as   *)
(* an Int.                                                                 *)
cache_get_or_create_with_config_query_int_count(cache_props) ==
  LET l == get_or_create_loop(cache_props, 0, << >>, << >>)
      prop_values == DictSet(l.prop_values, "param_count",
                             PyInt(Len(cache_props)))
  IN [raised |-> l.raised,
      schema |-> << <<"param_count", "Int">> >> \o l.prop_types,
      values |-> prop_values]

cache_get_or_create_with_config_query(cache_props) ==
  LET l == get_or_create_loop(cache_props, 0, << >>, << >>)
      prop_values == DictSet(l.prop_values, "param_count",
                             PyInt(Len(cache_props)))
  IN [raised |-> l.raised,
      schema |-> << <<"param_count", "Short">> >> \o l.prop_types,
      values |-> prop_values]

(***************************************************************************)
(* What a wrapper builds before it touches the connection: the field list  *)
(* of its query and the values for from_python.                            *)
(***************************************************************************)
BuildQuery(op, a) ==
  CASE OpTable[op].shape = "create" ->
         cache_create_with_config_query(a.cache_props)
    [] OpTable[op].shape = "get_or_create" ->
         cache_get_or_create_with_config_query(a.cache_props)
    [] OTHER ->
         [raised |-> "None", schema |-> QuerySchema(OpTable[op].shape, a),
          values |-> QueryValues(OpTable[op].shape, a)]

(***************************************************************************)
(* Query.from_python: the request frame.  The body holds the values in the *)
(* order of the field list, each under the type of its field; field names  *)
(* are not sent.  An omitted query_id is replaced by a generated one.      *)
(***************************************************************************)
GeneratedIds == {7}

(* pyignite.queries.op_codes *)
OpCodes ==
  [OP_CACHE_GET |-> 1000, OP_CACHE_PUT |-> 1001,
   OP_CACHE_PUT_IF_ABSENT |-> 1002, OP_CACHE_GET_ALL |-> 1003,
   OP_CACHE_PUT_ALL |-> 1004, OP_CACHE_GET_AND_PUT |-> 1005,
   OP_CACHE_GET_AND_REPLACE |-> 1006, OP_CACHE_GET_AND_REMOVE |-> 1007,
   OP_CACHE_GET_AND_PUT_IF_ABSENT |-> 1008, OP_CACHE_REPLACE |-> 1009,
   OP_CACHE_REPLACE_IF_EQUALS |-> 1010, OP_CACHE_CONTAINS_KEY |-> 1011,
   OP_CACHE_CONTAINS_KEYS |-> 1012, OP_CACHE_CLEAR |-> 1013,
   OP_CACHE_CLEAR_KEY |-> 1014, OP_CACHE_CLEAR_KEYS |-> 1015,
   OP_CACHE_REMOVE_KEY |-> 1016, OP_CACHE_REMOVE_IF_EQUALS |-> 1017,
   OP_CACHE_REMOVE_KEYS |-> 1018, OP_CACHE_REMOVE_ALL |-> 1019,
   OP_CACHE_GET_SIZE |-> 1020, OP_CACHE_GET_NAMES |-> 1050,
   OP_CACHE_CREATE_WITH_NAME |-> 1051,
   OP_CACHE_GET_OR_CREATE_WITH_NAME |-> 1052,
   OP_CACHE_CREATE_WITH_CONFIGURATION |-> 1053,
   OP_CACHE_GET_OR_CREATE_WITH_CONFIGURATION |-> 1054,
   OP_CACHE_GET_CONFIGURATION |-> 1055, OP_CACHE_DESTROY |-> 1056]

(* the fields of a message body, one after the other *)
RECURSIVE EncodeBody(_)
EncodeBody(body) ==
  IF body = << >> THEN << >>
  ELSE Encode(Head(body).type, Head(body).value) \o EncodeBody(Tail(body))

(* encode_request as it would be if the length counted its own four bytes. *)
encode_request_counts_itself(op_code, query_id, body) ==
  LET rest == ToLE(OpCodes[op_code], 2) \o ToLE(query_id, 8)
                \o EncodeBody(body)
  IN ToLE(Len(rest) + 4, 4) \o rest

(* [i32 length][i16 op_code][i64 query_id][body...]; the length is         *)
(* computed last and counts every byte after itself.                       *)
encode_request(op_code, query_id, body) ==
  LET rest == ToLE(OpCodes[op_code], 2) \o ToLE(query_id, 8)
                \o EncodeBody(body)
  IN ToLE(Len(rest), 4) \o rest

(* from_python raises when a value of the query cannot be encoded. *)
from_python_raises(schema, values) ==
  IF \A i \in 1..Len(schema) :
       Encodable(schema[i][2], DictLookup(values, schema[i][1]))
    THEN "None"
    ELSE "EncodeError"

(* from_python returns the query object it filled and the bytes to send.   *)
from_python(op_code, query_id, schema, values) ==
  LET body == [i \in 1..Len(schema) |->
                 [type |-> schema[i][2],
                  value |-> DictLookup(values, schema[i][1])]]
  IN [op_code |-> op_code,
      query_id |-> query_id,
      body |-> body,
      bytes |-> encode_request(op_code, query_id, body)]

(***************************************************************************)
(* The server side of the protocol: it answers a request with a frame that *)
(* echoes the query id and holds either status 0 and the fields of the     *)
(* operation's response, or a nonzero status and an error string           *)
(* [i32 str_len][utf8 bytes].                                              *)
(***************************************************************************)
ErrorStatuses == {-1}

(* "not found" *)
NotFound == <<110, 111, 116, 32, 102, 111, 117, 110, 100>>

ErrorTexts == { NotFound }

(* [i32 str_len][utf8 bytes] *)
EncodeString(text) ==
  LET b == Utf8Encode(text) IN ToLE(Len(b), 4) \o b

DecodeString(str) ==
  Utf8Decode(SubSeq(str, 5, 4 + FromLE(SubSeq(str, 1, 4))))

ServerValues(type) ==
  CASE type = "AnyDataObject" ->
         {[type |-> "Null", value |-> None], [type |-> "Int", value |-> PyInt(42)]}
    [] type = "Bool" -> {[type |-> "Bool", value |-> PyBool(TRUE)]}
    [] type = "Long" -> {[type |-> "Long", value |-> PyInt(3)]}
    [] type = "Map" -> {[type |-> "Map", value |-> PyDict(<< >>)]}
    [] type = "StringArray" ->
         {[type |-> "StringArray", value |-> PyList(<< PyStr(<<99>>) >>)]}
    [] type = "cache_config_struct" ->
         {[type |-> "cache_config_struct",
           value |-> PyDict(<< <<PyInt(PROP_NAME), PyStr(<<99>>)>> >>)]}

(* the header of a request, as the server reads it *)
RequestHeader(bytes) ==
  [length |-> FromLE(SubSeq(bytes, 1, 4)),
   op_code |-> FromLE(SubSeq(bytes, 5, 6)),
   query_id |-> FromLE(SubSeq(bytes, 7, 14))]

ProtocolResponse(op_number) ==
  OpTable[CHOOSE o \in Ops : OpCodes[OpTable[o].op_code] = op_number].response

ServerBodies(schema) ==
  IF schema = << >> THEN { << >> }
  ELSE { << item >> : item \in ServerValues(schema[1][2]) }

ServerFrames(request) ==
  LET header == RequestHeader(request.bytes)
  IN { [query_id |-> header.query_id, status_code |-> 0, body |-> b] :
         b \in ServerBodies(ProtocolResponse(header.op_code)) }
     \cup
     { [query_id |-> header.query_id, status_code |-> s,
        error_message |-> EncodeString(e)] :
         s \in ErrorStatuses, e \in ErrorTexts }

(* [i32 length][i64 query_id][i32 status][body, or the error string] *)
EncodeResponse(frame) ==
  LET rest == ToLE(frame.query_id, 8) \o ToLE(frame.status_code, 4)
                \o IF frame.status_code = 0 THEN EncodeBody(frame.body)
                   ELSE frame.error_message
  IN ToLE(Len(rest), 4) \o rest

(***************************************************************************)
(* Response.parse: the frame decoded under the field list of the response. *)
(***************************************************************************)
RECURSIVE DecodeFields(_, _, _, _)
DecodeFields(schema, buf, pos, body) ==
  IF schema = << >> THEN [ok |-> TRUE, items |-> body, pos |-> pos]
  ELSE LET d == Decode(Head(schema)[2], buf, pos)
       IN IF ~d.ok THEN d
          ELSE DecodeFields(Tail(schema), buf, d.pos,
                            Append(body, [type |-> d.type,
                                          value |-> d.value]))

(* Reads length, query id and status.  When the status is not 0 the rest   *)
(* is the error string and no field is read; when it is 0 the fields are   *)
(* decoded in declared order, and it is an error if the buffer ends before *)
(* the last field does or if bytes are left after it.                      *)
decode_response(schema, bytes) ==
  IF Len(bytes) < 16 \/ Len(bytes) # 4 + FromLE(SubSeq(bytes, 1, 4))
    THEN [raised |-> "DecodeError: truncated buffer"]
  ELSE LET query_id == FromLE(SubSeq(bytes, 5, 12))
           status_code == FromLE(SubSeq(bytes, 13, 16))
           d == DecodeFields(schema, bytes, 17, << >>)
       IN IF status_code # 0
            THEN [raised |-> "None",
                  frame |-> [query_id |-> query_id,
                             status_code |-> status_code,
                             error_message |-> SubSeq(bytes, 17, Len(bytes))]]
          ELSE IF ~d.ok THEN [raised |-> d.why]
          ELSE IF d.pos # Len(bytes) + 1
            THEN [raised |-> "DecodeError: trailing bytes"]
          ELSE [raised |-> "None",
                frame |-> [query_id |-> query_id,
                           status_code |-> status_code, body |-> d.items]]

(***************************************************************************)
(* Response.to_python: the decoded fields by name; no value when the       *)
(* response declares no field.                                             *)
(***************************************************************************)
to_python(schema, response) ==
  IF schema = << >> THEN None
  ELSE PyDict([i \in 1..Len(schema) |->
                 <<schema[i][1], response.body[i].value>>])

(***************************************************************************)
(* APIResult(response): the status, the error text of a failed response    *)
(* (empty otherwise), and no value yet.                                    *)
(***************************************************************************)
APIResult(response) ==
  [status |-> response.status_code,
   message |-> IF response.status_code # 0
                 THEN DecodeString(response.error_message)
                 ELSE EmptyText,
   value |-> None]

(***************************************************************************)
(* State.                                                                  *)
(*   pc          where each caller is in its call                          *)
(*   call        the wrapper a caller is in and its arguments              *)
(*   send_buffer the request frame from_python returned                    *)
(*   response    the response frame the caller parsed                      *)
(*   result      the APIResult object of the call (an index into heap)     *)
(*   raised      the exception that ended the call, if one did             *)
(*   heap        the APIResult objects created so far                      *)
(*   connected   whether the transport still works                         *)
(*   sent        the requests written to the connection, not yet answered  *)
(*   incoming    the responses the server wrote, not yet read              *)
(* History, kept for the properties only:                                  *)
(*   ncalls      calls started                                             *)
(*   callno      the serial number of each caller's call                   *)
(*   sends,recvs how often the call has written to / read from conn        *)
(*   alone       no other call wrote to the connection since this call     *)
(*               did, and none was waiting for an answer when it did       *)
(***************************************************************************)
VARIABLES pc, call, send_buffer, response, result, raised, heap,
          connected, sent, incoming, ncalls, callno, sends, recvs, alone

vars == <<pc, call, send_buffer, response, result, raised, heap,
          connected, sent, incoming, ncalls, callno, sends, recvs, alone>>

NoFrame == [none |-> TRUE]
NoCall == [op |-> "None", args |-> DefaultArgs]

Init ==
  /\ pc = [t \in Callers |-> "idle"]
  /\ call = [t \in Callers |-> NoCall]
  /\ send_buffer = [t \in Callers |-> NoFrame]
  /\ response = [t \in Callers |-> NoFrame]
  /\ result = [t \in Callers |-> 0]
  /\ raised = [t \in Callers |-> "None"]
  /\ heap = << >>
  /\ connected = TRUE
  /\ sent = << >>
  /\ incoming = << >>
  /\ ncalls = 0
  /\ callno = [t \in Callers |-> 0]
  /\ sends = [t \in Callers |-> 0]
  /\ recvs = [t \in Callers |-> 0]
  /\ alone = [t \in Callers |-> FALSE]

InFlight(t) == pc[t] = "sent"

(***************************************************************************)
(* A call ends, by return or by an exception: the local variables of the   *)
(* wrapper are gone.                                                       *)
(***************************************************************************)
Leave(t, how, exception) ==
  /\ pc' = [pc EXCEPT ![t] = how]
  /\ raised' = [raised EXCEPT ![t] = exception]
  /\ call' = [call EXCEPT ![t] = NoCall]
  /\ send_buffer' = [send_buffer EXCEPT ![t] = NoFrame]
  /\ response' = [response EXCEPT ![t] = NoFrame]
  /\ callno' = [callno EXCEPT ![t] = 0]
  /\ alone' = [alone EXCEPT ![t] = FALSE]

(* FromPython as it would be if the wrapper did not hand its query_id on   *)
(* to the query.                                                           *)
FromPython_query_id_dropped(t, op, a, generated) ==
  /\ pc[t] \in {"idle", "returned", "raised"}
  /\ ncalls < MaxCalls
  /\ ncalls' = ncalls + 1
  /\ result' = [result EXCEPT ![t] = 0]
  /\ sends' = [sends EXCEPT ![t] = 0]
  /\ recvs' = [recvs EXCEPT ![t] = 0]
  /\ LET q == BuildQuery(op, a)
         query_id == generated
     IN IF q.raised # "None"
          THEN Leave(t, "raised", q.raised)
          ELSE IF from_python_raises(q.schema, q.values) # "None"
          THEN Leave(t, "raised", from_python_raises(q.schema, q.values))
          ELSE /\ pc' = [pc EXCEPT ![t] = "built"]
               /\ raised' = [raised EXCEPT ![t] = "None"]
               /\ call' = [call EXCEPT ![t] = [op |-> op, args |-> a]]
               /\ send_buffer' =
                    [send_buffer EXCEPT ![t] =
                       from_python(OpTable[op].op_code, query_id,
                                   q.schema, q.values)]
               /\ callno' = [callno EXCEPT ![t] = ncalls + 1]
               /\ UNCHANGED <<response, alone>>
  /\ UNCHANGED <<heap, connected, sent, incoming>>

(* FromPython as it would be if the request were written to the connection *)
(* field by field while it is encoded: the fields before the one that      *)
(* cannot be encoded are on the connection when the error is raised.       *)
FromPython_writes_while_encoding(t, op, a, generated) ==
  /\ pc[t] \in {"idle", "returned", "raised"}
  /\ ncalls < MaxCalls
  /\ ncalls' = ncalls + 1
  /\ result' = [result EXCEPT ![t] = 0]
  /\ sends' = [sends EXCEPT ![t] = 0]
  /\ recvs' = [recvs EXCEPT ![t] = 0]
  /\ LET q == BuildQuery(op, a)
         query_id == IF a.query_id = None THEN generated ELSE a.query_id.v
     IN IF q.raised # "None"
          THEN Leave(t, "raised", q.raised) /\ UNCHANGED sent
          ELSE IF from_python_raises(q.schema, q.values) # "None"
          THEN /\ Leave(t, "raised", from_python_raises(q.schema, q.values))
               /\ sent' =
                    Append(sent,
                           [frame |-> from_python(OpTable[op].op_code,
                                                  query_id,
                                                  SubSeq(q.schema, 1, 1),
                                                  q.values),
                            origin |-> ncalls + 1])
          ELSE /\ pc' = [pc EXCEPT ![t] = "built"]
               /\ raised' = [raised EXCEPT ![t] = "None"]
               /\ call' = [call EXCEPT ![t] = [op |-> op, args |-> a]]
               /\ send_buffer' =
                    [send_buffer EXCEPT ![t] =
                       from_python(OpTable[op].op_code, query_id,
                                   q.schema, q.values)]
               /\ callno' = [callno EXCEPT ![t] = ncalls + 1]
               /\ UNCHANGED <<response, alone, sent>>
  /\ UNCHANGED <<heap, connected, incoming>>

(***************************************************************************)
(* A wrapper is entered: it builds its query and calls from_python.  An    *)
(* exception here ends the call before the connection is used.             *)
(***************************************************************************)
FromPython(t, op, a, generated) ==
  /\ pc[t] \in {"idle", "returned", "raised"}
  /\ ncalls < MaxCalls
  /\ ncalls' = ncalls + 1
  /\ result' = [result EXCEPT ![t] = 0]
  /\ sends' = [sends EXCEPT ![t] = 0]
  /\ recvs' = [recvs EXCEPT ![t] = 0]
  /\ LET q == BuildQuery(op, a)
         query_id == IF a.query_id = None THEN generated ELSE a.query_id.v
     IN IF q.raised # "None"
          THEN Leave(t, "raised", q.raised)
          ELSE IF from_python_raises(q.schema, q.values) # "None"
          THEN Leave(t, "raised", from_python_raises(q.schema, q.values))
          ELSE /\ pc' = [pc EXCEPT ![t] = "built"]
               /\ raised' = [raised EXCEPT ![t] = "None"]
               /\ call' = [call EXCEPT ![t] = [op |-> op, args |-> a]]
               /\ send_buffer' =
                    [send_buffer EXCEPT ![t] =
                       from_python(OpTable[op].op_code, query_id,
                                   q.schema, q.values)]
               /\ callno' = [callno EXCEPT ![t] = ncalls + 1]
               /\ UNCHANGED <<response, alone>>
  /\ UNCHANGED <<heap, connected, sent, incoming>>

(* ConnSend as it would be if the wrapper wrote its request twice.         *)
ConnSend_twice(t) ==
  /\ pc[t] = "built"
  /\ IF connected
       THEN /\ sent' = sent \o << [frame |-> send_buffer[t],
                                   origin |-> callno[t]],
                                  [frame |-> send_buffer[t],
                                   origin |-> callno[t]] >>
            /\ sends' = [sends EXCEPT ![t] = @ + 2]
            /\ pc' = [pc EXCEPT ![t] = "sent"]
            /\ alone' = [u \in Callers |->
                           IF u = t
                             THEN \A w \in Callers \ {t} : ~InFlight(w)
                             ELSE IF InFlight(u) THEN FALSE ELSE alone[u]]
            /\ UNCHANGED <<raised, call, send_buffer, response, callno>>
       ELSE /\ Leave(t, "raised", "ConnectionError")
            /\ UNCHANGED <<sent, sends>>
  /\ UNCHANGED <<result, heap, connected, incoming, ncalls, recvs>>

(***************************************************************************)
(* conn.send(send_buffer).  A broken transport raises ConnectionError.     *)
(***************************************************************************)
ConnSend(t) ==
  /\ pc[t] = "built"
  /\ IF connected
       THEN /\ sent' = Append(sent, [frame |-> send_buffer[t],
                                     origin |-> callno[t]])
            /\ sends' = [sends EXCEPT ![t] = @ + 1]
            /\ pc' = [pc EXCEPT ![t] = "sent"]
            /\ alone' = [u \in Callers |->
                           IF u = t
                             THEN \A w \in Callers \ {t} : ~InFlight(w)
                             ELSE IF InFlight(u) THEN FALSE ELSE alone[u]]
            /\ UNCHANGED <<raised, call, send_buffer, response, callno>>
       ELSE /\ Leave(t, "raised", "ConnectionError")
            /\ UNCHANGED <<sent, sends>>
  /\ UNCHANGED <<result, heap, connected, incoming, ncalls, recvs>>

(***************************************************************************)
(* The server answers the oldest request on the connection.                *)
(***************************************************************************)
ServerRespond ==
  /\ connected
  /\ sent # << >>
  /\ \E f \in ServerFrames(Head(sent).frame) :
       incoming' = Append(incoming, [bytes |-> EncodeResponse(f),
                                     origin |-> Head(sent).origin,
                                     said |-> f, fault |-> "none"])
  /\ sent' = Tail(sent)
  /\ UNCHANGED <<pc, call, send_buffer, response, result, raised, heap,
                 connected, ncalls, callno, sends, recvs, alone>>

(***************************************************************************)
(* The server refuses the oldest request with another status and text.     *)
(***************************************************************************)
OtherStatuses == {1001}

OtherTexts == { <<233, 33>> }

ServerReject ==
  /\ connected
  /\ sent # << >>
  /\ \E s \in OtherStatuses, e \in OtherTexts :
       LET f == [query_id |-> RequestHeader(Head(sent).frame.bytes).query_id,
                 status_code |-> s, error_message |-> EncodeString(e)]
       IN incoming' = Append(incoming, [bytes |-> EncodeResponse(f),
                                        origin |-> Head(sent).origin,
                                        said |-> f, fault |-> "none"])
  /\ sent' = Tail(sent)
  /\ UNCHANGED <<pc, call, send_buffer, response, result, raised, heap,
                 connected, ncalls, callno, sends, recvs, alone>>

(***************************************************************************)
(* A server that breaks the protocol: it answers the oldest request with a *)
(* zero-status frame that has a byte after its last field ("trailing"),    *)
(* or lacks the last byte of its last field ("truncated"), or carries a    *)
(* type code that is not in the table ("unknown_code").                    *)
(***************************************************************************)
Faults == {"trailing", "truncated", "unknown_code"}

UnknownCode == 238

Reframe(rest) == ToLE(Len(rest), 4) \o rest

Tamper(fault, bytes) ==
  LET rest == SubSeq(bytes, 5, Len(bytes))
  IN CASE fault = "trailing" -> Reframe(rest \o << 0 >>)
       [] fault = "truncated" -> Reframe(SubSeq(rest, 1, Len(rest) - 1))
       [] fault = "unknown_code" ->
            Reframe([i \in 1..Len(rest) |->
                       IF i = 13 THEN UnknownCode ELSE rest[i]])

ServerRespondMalformed ==
  /\ connected
  /\ sent # << >>
  /\ \E f \in ServerFrames(Head(sent).frame), fault \in Faults :
       /\ f.status_code = 0
       /\ fault # "trailing" => f.body # << >>
       /\ incoming' = Append(incoming,
                             [bytes |-> Tamper(fault, EncodeResponse(f)),
                              origin |-> Head(sent).origin,
                              said |-> f, fault |-> fault])
  /\ sent' = Tail(sent)
  /\ UNCHANGED <<pc, call, send_buffer, response, result, raised, heap,
                 connected, ncalls, callno, sends, recvs, alone>>

(***************************************************************************)
(* The transport fails.                                                    *)
(***************************************************************************)
Disconnect ==
  /\ connected
  /\ connected' = FALSE
  /\ UNCHANGED <<pc, call, send_buffer, response, result, raised, heap,
                 sent, incoming, ncalls, callno, sends, recvs, alone>>

(* What a lenient parse makes of a zero-status frame: the fields that      *)
(* decode, null for each one that does not, bytes left over ignored.       *)
LenientFrame(schema, bytes) ==
  LET d == DecodeFields(schema, bytes, 17, << >>)
  IN [query_id |-> FromLE(SubSeq(bytes, 5, 12)),
      status_code |-> 0,
      body |-> IF d.ok THEN d.items
               ELSE [i \in 1..Len(schema) |->
                       [type |-> "Null", value |-> None]]]

(* Parse as it would be if bytes left after the last field were ignored.   *)
Parse_trailing_ignored(t) ==
  /\ pc[t] = "sent"
  /\ IF ~connected
       THEN /\ Leave(t, "raised", "ConnectionError")
            /\ UNCHANGED <<incoming, recvs>>
       ELSE /\ incoming # << >>
            /\ incoming' = Tail(incoming)
            /\ recvs' = [recvs EXCEPT ![t] = @ + 1]
            /\ LET d == decode_response(OpTable[call[t].op].response,
                                        Head(incoming).bytes)
               IN IF d.raised = "DecodeError: trailing bytes"
                    THEN /\ pc' = [pc EXCEPT ![t] = "parsed"]
                         /\ response' =
                              [response EXCEPT ![t] =
                                 [frame |-> LenientFrame(
                                              OpTable[call[t].op].response,
                                              Head(incoming).bytes),
                                  origin |-> Head(incoming).origin,
                                  said |-> Head(incoming).said]]
                         /\ UNCHANGED <<raised, call, send_buffer, callno,
                                        alone>>
                    ELSE IF d.raised # "None"
                    THEN Leave(t, "raised", d.raised)
                    ELSE /\ pc' = [pc EXCEPT ![t] = "parsed"]
                         /\ response' =
                              [response EXCEPT ![t] =
                                 [frame |-> d.frame,
                                  origin |-> Head(incoming).origin,
                                  said |-> Head(incoming).said]]
                         /\ UNCHANGED <<raised, call, send_buffer, callno,
                                        alone>>
  /\ UNCHANGED <<result, heap, connected, sent, ncalls, sends>>

(* Parse as it would be if a type code that is not in the table were read  *)
(* as null.                                                                *)
Parse_unknown_as_null(t) ==
  /\ pc[t] = "sent"
  /\ IF ~connected
       THEN /\ Leave(t, "raised", "ConnectionError")
            /\ UNCHANGED <<incoming, recvs>>
       ELSE /\ incoming # << >>
            /\ incoming' = Tail(incoming)
            /\ recvs' = [recvs EXCEPT ![t] = @ + 1]
            /\ LET d == decode_response(OpTable[call[t].op].response,
                                        Head(incoming).bytes)
               IN IF d.raised = "DecodeError: unknown type-code"
                    THEN /\ pc' = [pc EXCEPT ![t] = "parsed"]
                         /\ response' =
                              [response EXCEPT ![t] =
                                 [frame |-> LenientFrame(
                                              OpTable[call[t].op].response,
                                              Head(incoming).bytes),
                                  origin |-> Head(incoming).origin,
                                  said |-> Head(incoming).said]]
                         /\ UNCHANGED <<raised, call, send_buffer, callno,
                                        alone>>
                    ELSE IF d.raised # "None"
                    THEN Leave(t, "raised", d.raised)
                    ELSE /\ pc' = [pc EXCEPT ![t] = "parsed"]
                         /\ response' =
                              [response EXCEPT ![t] =
                                 [frame |-> d.frame,
                                  origin |-> Head(incoming).origin,
                                  said |-> Head(incoming).said]]
                         /\ UNCHANGED <<raised, call, send_buffer, callno,
                                        alone>>
  /\ UNCHANGED <<result, heap, connected, sent, ncalls, sends>>

(* Parse as it would be if a response that does not decode made the       *)
(* wrapper send its request again.                                         *)
Parse_retry(t) ==
  /\ pc[t] = "sent"
  /\ IF ~connected
       THEN /\ Leave(t, "raised", "ConnectionError")
            /\ UNCHANGED <<incoming, recvs>>
       ELSE /\ incoming # << >>
            /\ incoming' = Tail(incoming)
            /\ recvs' = [recvs EXCEPT ![t] = @ + 1]
            /\ LET d == decode_response(OpTable[call[t].op].response,
                                        Head(incoming).bytes)
               IN IF d.raised \in DecodeErrors
                    THEN /\ pc' = [pc EXCEPT ![t] = "built"]
                         /\ UNCHANGED <<raised, call, send_buffer, response,
                                        callno, alone>>
                    ELSE IF d.raised # "None"
                    THEN Leave(t, "raised", d.raised)
                    ELSE /\ pc' = [pc EXCEPT ![t] = "parsed"]
                         /\ response' =
                              [response EXCEPT ![t] =
                                 [frame |-> d.frame,
                                  origin |-> Head(incoming).origin,
                                  said |-> Head(incoming).said]]
                         /\ UNCHANGED <<raised, call, send_buffer, callno,
                                        alone>>
  /\ UNCHANGED <<result, heap, connected, sent, ncalls, sends>>

(* Parse as it would be if a failure of the transport were reported as a   *)
(* failed response instead of being raised.                                *)
Parse_error_as_status(t) ==
  /\ pc[t] = "sent"
  /\ IF ~connected
       THEN /\ pc' = [pc EXCEPT ![t] = "parsed"]
            /\ response' =
                 [response EXCEPT ![t] =
                    LET f == [query_id |-> send_buffer[t].query_id,
                              status_code |-> -1,
                              error_message |->
                                EncodeString(<<108, 111, 115, 116>>)]
                    IN [frame |-> f, origin |-> callno[t], said |-> f]]
            /\ UNCHANGED <<raised, call, send_buffer, callno, alone,
                           incoming, recvs>>
       ELSE /\ incoming # << >>
            /\ incoming' = Tail(incoming)
            /\ recvs' = [recvs EXCEPT ![t] = @ + 1]
            /\ LET d == decode_response(OpTable[call[t].op].response,
                                        Head(incoming).bytes)
               IN IF d.raised # "None"
                    THEN Leave(t, "raised", d.raised)
                    ELSE /\ pc' = [pc EXCEPT ![t] = "parsed"]
                         /\ response' =
                              [response EXCEPT ![t] =
                                 [frame |-> d.frame,
                                  origin |-> Head(incoming).origin,
                                  said |-> Head(incoming).said]]
                         /\ UNCHANGED <<raised, call, send_buffer, callno,
                                        alone>>
  /\ UNCHANGED <<result, heap, connected, sent, ncalls, sends>>

(* Parse as it would be if a wrapper could read from the connection before *)
(* it has written its request.                                             *)
Parse_before_send(t) ==
  /\ pc[t] \in {"built", "sent"}
  /\ IF ~connected
       THEN /\ Leave(t, "raised", "ConnectionError")
            /\ UNCHANGED <<incoming, recvs>>
       ELSE /\ incoming # << >>
            /\ incoming' = Tail(incoming)
            /\ recvs' = [recvs EXCEPT ![t] = @ + 1]
            /\ LET d == decode_response(OpTable[call[t].op].response,
                                        Head(incoming).bytes)
               IN IF d.raised # "None"
                    THEN Leave(t, "raised", d.raised)
                    ELSE /\ pc' = [pc EXCEPT ![t] = "parsed"]
                         /\ response' =
                              [response EXCEPT ![t] =
                                 [frame |-> d.frame,
                                  origin |-> Head(incoming).origin,
                                  said |-> Head(incoming).said]]
                         /\ UNCHANGED <<raised, call, send_buffer, callno,
                                        alone>>
  /\ UNCHANGED <<result, heap, connected, sent, ncalls, sends>>

(***************************************************************************)
(* response_struct.parse(conn): reads the next response frame from the     *)
(* connection, blocking until there is one.  A zero-status frame whose     *)
(* body does not decode under the response's field list raises.            *)
(***************************************************************************)
Parse(t) ==
  /\ pc[t] = "sent"
  /\ IF ~connected
       THEN /\ Leave(t, "raised", "ConnectionError")
            /\ UNCHANGED <<incoming, recvs>>
       ELSE /\ incoming # << >>
            /\ incoming' = Tail(incoming)
            /\ recvs' = [recvs EXCEPT ![t] = @ + 1]
            /\ LET d == decode_response(OpTable[call[t].op].response,
                                        Head(incoming).bytes)
               IN IF d.raised # "None"
                    THEN Leave(t, "raised", d.raised)
                    ELSE /\ pc' = [pc EXCEPT ![t] = "parsed"]
                         /\ response' =
                              [response EXCEPT ![t] =
                                 [frame |-> d.frame,
                                  origin |-> Head(incoming).origin,
                                  said |-> Head(incoming).said]]
                         /\ UNCHANGED <<raised, call, send_buffer, callno,
                                        alone>>
  /\ UNCHANGED <<result, heap, connected, sent, ncalls, sends>>

(* MakeResult as it would be if the wrappers filled one shared result      *)
(* object instead of constructing a new one.                               *)
MakeResult_shared_object(t) ==
  /\ pc[t] = "parsed"
  /\ IF heap = << >>
       THEN heap' = << APIResult(response[t].frame) >>
       ELSE heap' = [heap EXCEPT ![1] = APIResult(response[t].frame)]
  /\ result' = [result EXCEPT ![t] = 1]
  /\ pc' = [pc EXCEPT ![t] = "constructed"]
  /\ UNCHANGED <<call, send_buffer, response, raised, connected, sent,
                 incoming, ncalls, callno, sends, recvs, alone>>

(* MakeResult as it would be if a nonzero status were normalised to -1.    *)
MakeResult_status_flag(t) ==
  /\ pc[t] = "parsed"
  /\ heap' = Append(heap, [APIResult(response[t].frame) EXCEPT
                             !.status = IF @ = 0 THEN 0 ELSE -1])
  /\ result' = [result EXCEPT ![t] = Len(heap) + 1]
  /\ pc' = [pc EXCEPT ![t] = "constructed"]
  /\ UNCHANGED <<call, send_buffer, response, raised, connected, sent,
                 incoming, ncalls, callno, sends, recvs, alone>>

(***************************************************************************)
(* response = response_class.from_buffer_copy(recv_buffer)                 *)
(* result = APIResult(response)                                            *)
(***************************************************************************)
MakeResult(t) ==
  /\ pc[t] = "parsed"
  /\ heap' = Append(heap, APIResult(response[t].frame))
  /\ result' = [result EXCEPT ![t] = Len(heap) + 1]
  /\ pc' = [pc EXCEPT ![t] = "constructed"]
  /\ UNCHANGED <<call, send_buffer, response, raised, connected, sent,
                 incoming, ncalls, callno, sends, recvs, alone>>

(***************************************************************************)
(* The end of a wrapper.  One that reports a value returns the result      *)
(* as it is when the status is not 0, and stores the value otherwise;      *)
(* one that reports none returns the result as constructed.  The caller    *)
(* then holds the result object.                                           *)
(***************************************************************************)
(* ResultValue as it would be if cache_put stored the fields of the       *)
(* response as they are, without to_python.                                *)
ResultValue_raw_fields(w, resp) ==
  IF w.assign = "whole"
    THEN PyList(resp.body)
    ELSE DictLookup(to_python(w.response, resp).v, w.field)

ResultValue(w, resp) ==
  IF w.assign = "whole"
    THEN to_python(w.response, resp)
    ELSE DictLookup(to_python(w.response, resp).v, w.field)

(* Finish as it would be if a failed call reported the error text as its   *)
(* value.                                                                  *)
Finish_error_as_value(t) ==
  /\ pc[t] = "constructed"
  /\ LET w == OpTable[call[t].op]
         status == heap[result[t]].status
     IN IF w.assign = "none"
          THEN UNCHANGED heap
          ELSE IF status # 0
            THEN heap' = [heap EXCEPT ![result[t]].value =
                            PyStr(heap[result[t]].message)]
            ELSE heap' = [heap EXCEPT ![result[t]].value =
                            ResultValue(w, response[t].frame)]
  /\ Leave(t, "returned", "None")
  /\ UNCHANGED <<result, connected, sent, incoming, ncalls, sends, recvs>>

(* Finish as it would be if the wrappers returned without storing the      *)
(* decoded value.                                                          *)
Finish_no_value(t) ==
  /\ pc[t] = "constructed"
  /\ UNCHANGED heap
  /\ Leave(t, "returned", "None")
  /\ UNCHANGED <<result, connected, sent, incoming, ncalls, sends, recvs>>

Finish(t) ==
  /\ pc[t] = "constructed"
  /\ LET w == OpTable[call[t].op]
         status == heap[result[t]].status
     IN IF w.assign = "none" \/ status # 0
          THEN UNCHANGED heap
          ELSE heap' = [heap EXCEPT ![result[t]].value =
                          ResultValue(w, response[t].frame)]
  /\ Leave(t, "returned", "None")
  /\ UNCHANGED <<result, connected, sent, incoming, ncalls, sends, recvs>>

(***************************************************************************)
(* The callers drop the results they hold.                                 *)
(***************************************************************************)
Forget ==
  /\ heap # << >>
  /\ \A t \in Callers : pc[t] \in {"idle", "returned", "raised"}
  /\ heap' = << >>
  /\ result' = [t \in Callers |-> 0]
  /\ UNCHANGED <<pc, call, send_buffer, response, raised, connected, sent,
                 incoming, ncalls, callno, sends, recvs, alone>>

(***************************************************************************)
(* Specification of concurrent callers on one connection that works.  The  *)
(* wrappers called differ in the response they expect and in what they     *)
(* store; the query id is given or left out.  The callers are numbered in  *)
(* the order of their first calls.                                         *)
(***************************************************************************)
QueryIdArgs == {None, PyInt(1)}

CallArgs == {[DefaultArgs EXCEPT !.query_id = q] : q \in QueryIdArgs}

SharedOps == {"cache_put", "cache_get"}

Next ==
  \/ \E t \in Callers, op \in SharedOps, a \in CallArgs, g \in GeneratedIds :
       /\ \A u \in Callers : u < t => pc[u] # "idle"
       /\ FromPython(t, op, a, g)
  \/ \E t \in Callers : ConnSend(t)
  \/ ServerRespond
  \/ \E t \in Callers : Parse(t)
  \/ \E t \in Callers : MakeResult(t)
  \/ \E t \in Callers : Finish(t)

Spec == Init /\ [][Next]_vars

(***************************************************************************)
(* Specification of one caller that calls the wrappers one after another:  *)
(* every wrapper of the two files, the two configuration wrappers with     *)
(* every property dictionary of up to MaxProps entries.                    *)
(***************************************************************************)
PropCodes == {PROP_NAME, PROP_CACHE_MODE, PROP_BACKUPS_NUMBER, 99}

PropValues(prop_code) ==
  CASE prop_code = PROP_NAME -> {PyStr(<<99>>)}
    [] prop_code = PROP_CACHE_MODE -> {PyInt(1)}
    [] prop_code = PROP_BACKUPS_NUMBER -> {PyInt(2)}
    [] OTHER -> {PyInt(0)}

PropItems == UNION { {<<c, v>> : v \in PropValues(c)} : c \in PropCodes }

PropMaps ==
  UNION { {m \in [1..n -> PropItems] :
             \A i, j \in 1..n : i # j => m[i][1] # m[j][1]} :
          n \in 0..MaxProps }

(* binary: True, a number that is not 0, None (False is the default) *)
BinaryArgs == {PyBool(TRUE), PyInt(2), None}

(* peek_modes: scalars, lists and tuples (0 is the default) *)
PeekModeArgs ==
  {PyInt(1), PyInt(3), PyBool(FALSE),
   PyList(<< >>), PyList(<< PyInt(0) >>), PyList(<< PyInt(1), PyInt(2) >>),
   PyTuple(<< >>), PyTuple(<< PyInt(1), PyInt(2) >>)}

SeqArgs(op) ==
  IF op \in ConfigOps
    THEN {[DefaultArgs EXCEPT !.cache_props = m] : m \in PropMaps}
    ELSE IF op \in KeyValueOps
    THEN {DefaultArgs}
           \cup {[DefaultArgs EXCEPT !.binary = b] : b \in BinaryArgs}
           \cup (IF op = "cache_get_size"
                   THEN {[DefaultArgs EXCEPT !.peek_modes = m] :
                           m \in PeekModeArgs}
                   ELSE {})
    ELSE {DefaultArgs}

NextSeq ==
  \/ \E op \in Ops, g \in GeneratedIds :
       \E a \in SeqArgs(op) : FromPython(1, op, a, g)
  \/ ConnSend(1)
  \/ ServerRespond
  \/ Disconnect
  \/ Parse(1)
  \/ MakeResult(1)
  \/ Finish(1)

SpecSeq == Init /\ [][NextSeq]_vars

(***************************************************************************)
(* Specification of one caller whose arguments vary: the cache by name or  *)
(* by number, the query id given or left out, keys and values of every     *)
(* type the codec has, and some that cannot be encoded; and of a server    *)
(* that may break the protocol.  The caller keeps no result when it calls  *)
(* again.                                                                  *)
(***************************************************************************)
Hello == <<72, 101, 108, 108, 111>>

(* a name whose hash wraps around *)
LongName == <<65535, 65535, 65535, 65535, 65535>>

NameUnits == {72, 65535}

Names ==
  UNION { [1..n -> NameUnits] : n \in 0..MaxNameLen } \cup {Hello, LongName}

CacheArgs ==
  {PyStr(n) : n \in Names}
    \cup {PyInt(hashcode(Hello)), PyInt(0), PyInt(-1)}

WireQueryIds == {None, PyInt(0), PyInt(1), PyInt(-2)}

WireValues ==
  {None, PyBool(TRUE), PyBool(FALSE),
   PyInt(0), PyInt(-1), PyInt(127), PyInt(128), PyInt(-128), PyInt(-129),
   PyInt(32767), PyInt(32768), PyInt(-32769), PyInt(2147483647),
   PyInt(-2147483647 - 1),
   PyStr(<< >>), PyStr(Hello), PyStr(<<233>>), PyStr(<<8364, 107>>),
   PyList(<< >>), PyList(<< PyInt(300), PyStr(<<233>>), None >>),
   PyList(<< PyList(<< PyBool(TRUE) >>) >>),
   PyDict(<< <<PyStr(<<107>>), PyInt(-300)>>,
             <<PyInt(2), PyList(<< None >>)>> >>)}

Hints == {"Byte", "Short", "Int", "Long"}

WireOps ==
  {"cache_put", "cache_get", "cache_get_all", "cache_get_size",
   "cache_get_configuration", "cache_create", "cache_destroy",
   "cache_get_names", "cache_create_with_config"}

(* property dictionaries: one that can be encoded, one whose name is not   *)
(* text, one whose second value no type takes                              *)
WireProps ==
  { << <<PROP_NAME, PyStr(<<99>>)>> >>,
    << <<PROP_NAME, PyInt(5)>> >>,
    << <<PROP_NAME, PyStr(<<99>>)>>, <<PROP_BACKUPS_NUMBER, PyObject>> >> }

WireArgs(op) ==
  {[DefaultArgs EXCEPT !.query_id = q] : q \in WireQueryIds}
    \cup (IF op \in {"cache_put", "cache_get", "cache_destroy"}
            THEN {[DefaultArgs EXCEPT !.cache = c] : c \in CacheArgs}
            ELSE {})
    \cup (IF op = "cache_put"
            THEN {[DefaultArgs EXCEPT !.value = v] : v \in WireValues}
                   \cup {[DefaultArgs EXCEPT !.key = v] : v \in WireValues}
                   \cup {[DefaultArgs EXCEPT !.value = PyInt(5),
                                             !.value_hint = h] : h \in Hints}
                   \cup {[DefaultArgs EXCEPT !.value = PyInt(300),
                                             !.value_hint = "Byte"],
                         [DefaultArgs EXCEPT !.value = PyObject]}
            ELSE {})
    \cup (IF op = "cache_get_size"
            THEN {[DefaultArgs EXCEPT !.peek_modes = m] :
                    m \in {PyInt(1), PyList(<< PyInt(1), PyInt(2) >>)}}
            ELSE {})
    \cup (IF op = "cache_create_with_config"
            THEN {[DefaultArgs EXCEPT !.cache_props = m] : m \in WireProps}
            ELSE {})

NextWire ==
  \/ \E op \in WireOps, g \in GeneratedIds :
       \E a \in WireArgs(op) : heap = << >> /\ FromPython(1, op, a, g)
  \/ Forget
  \/ ConnSend(1)
  \/ ServerRespond
  \/ ServerReject
  \/ ServerRespondMalformed
  \/ Disconnect
  \/ Parse(1)
  \/ MakeResult(1)
  \/ Finish(1)

SpecWire == Init /\ [][NextWire]_vars

(***************************************************************************)
(* Properties.                                                             *)
(***************************************************************************)
InCall(t) == pc[t] \in {"built", "sent", "parsed", "constructed"}

Returned(t) == pc[t] = "returned" /\ result[t] # 0

(* the step in which a call reads a response from the connection *)
ReadsResponse(t) == pc[t] = "sent" /\ pc'[t] # "sent" /\ connected

(* C1: an APIResult whose status is not 0 carries no value decoded from    *)
(* the response, and its error text is there and not empty, whichever      *)
(* wrapper made it and whether or not it has been returned yet.            *)
FailedResultHasNoValue ==
  \A i \in 1..Len(heap) :
    heap[i].status # 0 =>
      heap[i].value = None /\ heap[i].message # EmptyText

(* C1 witness: a wrapper has returned a result with a nonzero status.      *)
FailedResultReturned ==
  \E t \in Callers : Returned(t) /\ heap[result[t]].status # 0

(* C2: at the step that returns a result, the result is either complete    *)
(* (status 0, no error text, and the value holding what the declared       *)
(* fields of the response decoded to: the one field the wrapper reports,   *)
(* or the dictionary of all fields, or nothing when none is declared) or   *)
(* an error only (status not 0, an error text, no value).                  *)
FullyDecoded(w, r, f) ==
  CASE w.assign = "field" ->
         /\ Len(w.response) = 1
         /\ w.response[1][1] = w.field
         /\ r.value = f.body[1].value
    [] w.assign = "whole" ->
         r.value = IF w.response = << >> THEN None
                   ELSE PyDict([i \in 1..Len(w.response) |->
                                  <<w.response[i][1], f.body[i].value>>])
    [] OTHER -> w.response = << >> /\ r.value = None

ResultNeverPartial ==
  [][\A t \in Callers :
       pc[t] = "constructed" /\ pc'[t] = "returned" =>
         LET r == heap'[result[t]]
             w == OpTable[call[t].op]
             f == response[t].frame
         IN \/ /\ r.status = 0
               /\ r.message = EmptyText
               /\ FullyDecoded(w, r, f)
            \/ /\ r.status # 0
               /\ r.message # EmptyText
               /\ r.value = None]_vars

(* C2 witness: a wrapper has returned a zero-status result with a value.   *)
DecodedResultReturned ==
  \E t \in Callers :
    /\ Returned(t)
    /\ heap[result[t]].status = 0
    /\ heap[result[t]].value # None

(* C3, as stated: whatever the callers do, no caller writes a request      *)
(* while another one waits for its response, and every caller reads the    *)
(* response to its own request.                                            *)
OneRequestAtATime ==
  /\ \A t, u \in Callers : t # u => ~(InFlight(t) /\ InFlight(u))
  /\ \A t \in Callers :
       pc[t] \in {"parsed", "constructed"} => response[t].origin = callno[t]

(* C3, amended: the wrappers do not lock the connection.  A call that had  *)
(* the connection to itself (no other call was waiting for a response      *)
(* when it wrote its request, and none wrote one before it read) has read *)
(* the response to its own request.                                        *)
AloneGetsOwnResponse ==
  \A t \in Callers :
    pc[t] \in {"parsed", "constructed"} /\ alone[t] =>
      response[t].origin = callno[t]

(* C3 witness: a call that had the connection to itself has read its       *)
(* response while another caller, its request built, is about to write.    *)
AloneCallAnswered ==
  \E t, u \in Callers :
    /\ t # u
    /\ pc[t] = "parsed"
    /\ alone[t]
    /\ pc[u] = "built"

(* C4: the result of a call is built from a response that carries the      *)
(* query id of the request the call sent.                                  *)
ResponseEchoesQueryId ==
  \A t \in Callers :
    pc[t] = "constructed" =>
      response[t].frame.query_id = send_buffer[t].query_id

(* C5: the i-th property field of a configuration request carries the      *)
(* value, under the type, of the i-th property the caller supplied.        *)
ConfigCall(t) == InCall(t) /\ call[t].op \in ConfigOps

PropertiesInSuppliedOrder ==
  \A t \in Callers :
    ConfigCall(t) =>
      LET cache_props == call[t].args.cache_props
          body == send_buffer[t].body
      IN \A i \in 1..Len(cache_props) :
           /\ i + 1 <= Len(body)
           /\ body[i + 1].value = cache_props[i][2]
           /\ body[i + 1].type = prop_map(cache_props[i][1])

(* C5 witness: a configuration request is on the connection whose          *)
(* properties were not supplied in the order of their codes.               *)
UnsortedPropertiesSent ==
  \E t \in Callers :
    /\ pc[t] = "sent"
    /\ call[t].op \in ConfigOps
    /\ Len(call[t].args.cache_props) = 2
    /\ call[t].args.cache_props[1][1] > call[t].args.cache_props[2][1]

(* C6: the first field of a configuration request is the parameter count,  *)
(* a Short whose value is the number of properties supplied, and exactly   *)
(* that many property fields follow it.                                    *)
ParamCountFirst ==
  \A t \in Callers :
    ConfigCall(t) =>
      LET cache_props == call[t].args.cache_props
          body == send_buffer[t].body
      IN /\ Len(body) = Len(cache_props) + 1
         /\ body[1].type = "Short"
         /\ body[1].value = PyInt(Len(cache_props))

(* C6 witness: a configuration request with two properties is on the       *)
(* connection.                                                             *)
TwoPropertiesSent ==
  \E t \in Callers :
    /\ pc[t] = "sent"
    /\ call[t].op = "cache_create_with_config"
    /\ Len(call[t].args.cache_props) = 2

(* C7: the request one configuration wrapper has built is, but for the     *)
(* operation code, the request the other one builds from the same          *)
(* properties and query id, and the other one builds one as well.          *)
OtherConfigOp(op) == CHOOSE o \in ConfigOps : o # op

ConfigWrappersAgree ==
  \A t \in Callers :
    ConfigCall(t) =>
      LET other == OtherConfigOp(call[t].op)
          q == BuildQuery(other, call[t].args)
          frame == from_python(OpTable[other].op_code,
                               send_buffer[t].query_id, q.schema, q.values)
      IN /\ q.raised = "None"
         /\ frame.body = send_buffer[t].body
         /\ frame.query_id = send_buffer[t].query_id
         /\ frame.op_code # send_buffer[t].op_code
         /\ send_buffer[t].op_code = OpTable[call[t].op].op_code

(* C7 witness: cache_get_or_create_with_config has built a request with    *)
(* properties in it.                                                       *)
GetOrCreateWithConfigBuilt ==
  \E t \in Callers :
    /\ pc[t] = "built"
    /\ call[t].op = "cache_get_or_create_with_config"
    /\ Len(call[t].args.cache_props) >= 1

(* C8: a configuration call whose properties include a code without a      *)
(* table entry gets no further than building its query, and a call ended   *)
(* by UnknownPropertyError has written nothing to the connection and read  *)
(* nothing from it.                                                        *)
UnknownPropertyEndsCall ==
  \A t \in Callers :
    /\ ConfigCall(t) =>
         \A i \in 1..Len(call[t].args.cache_props) :
           KnownProp(call[t].args.cache_props[i][1])
    /\ raised[t] = "UnknownPropertyError" =>
         pc[t] = "raised" /\ sends[t] = 0 /\ recvs[t] = 0 /\ result[t] = 0

(* C8 witness: a call has been ended by UnknownPropertyError while the     *)
(* connection was in working order.                                        *)
UnknownPropertyRaised ==
  \E t \in Callers :
    pc[t] = "raised" /\ raised[t] = "UnknownPropertyError" /\ connected

(* C9: no creation request is written to the connection for a property     *)
(* dictionary without the name property.                                   *)
CreationRequestHasName ==
  \A t \in Callers :
    pc[t] = "sent" /\ call[t].op \in ConfigOps =>
      PROP_NAME \in DictKeys(call[t].args.cache_props)

(* C10, as stated: once an APIResult is constructed none of its fields     *)
(* ever changes.                                                           *)
ResultImmutable ==
  [][\A i \in 1..Len(heap) : heap'[i] = heap[i]]_vars

(* C10, amended: the status and the error text of a result never change    *)
(* after construction; its value changes only in the step that returns it  *)
(* from the call that constructed it, and only when its status is 0;       *)
(* every call constructs a result object of its own.                       *)
ResultFrozenOnReturn ==
  [][/\ Len(heap') >= Len(heap)
     /\ \A i \in 1..Len(heap) :
          /\ heap'[i].status = heap[i].status
          /\ heap'[i].message = heap[i].message
          /\ heap'[i].value # heap[i].value =>
               \E t \in Callers :
                 /\ result[t] = i
                 /\ pc[t] = "constructed"
                 /\ pc'[t] = "returned"
                 /\ heap[i].status = 0
                 /\ heap[i].value = None
     /\ \A t \in Callers :
          pc[t] = "parsed" /\ pc'[t] = "constructed" =>
            result'[t] = Len(heap) + 1 /\ Len(heap') = Len(heap) + 1]_vars

(* C10 witness: a second result has been constructed after a first one     *)
(* was returned with a value.                                              *)
SecondResultConstructed ==
  \E t \in Callers :
    /\ pc[t] = "constructed"
    /\ result[t] = 2
    /\ heap[1].value # None

(* C11: when the server answers cache_put with status 0 and an empty body, *)
(* whatever cache, key and value the call was given, the response parses   *)
(* and the result cache_put returns has status 0 and no value.             *)
CanonicalSuccess(entry) ==
  /\ entry.fault = "none"
  /\ entry.said.status_code = 0
  /\ entry.said.body = << >>
  /\ Len(entry.bytes) = 16

PutSuccessHasNoValue ==
  [][\A t \in Callers :
       call[t].op = "cache_put" =>
         /\ ReadsResponse(t) /\ CanonicalSuccess(Head(incoming))
              => pc'[t] = "parsed"
         /\ pc[t] = "constructed" /\ pc'[t] # "constructed"
               /\ heap[result[t]].status = 0
              => /\ pc'[t] = "returned"
                 /\ result'[t] = result[t]
                 /\ heap'[result[t]].status = 0
                 /\ heap'[result[t]].message = EmptyText
                 /\ heap'[result[t]].value = None]_vars

(* C11 witness: cache_put, given a dictionary as the value, has built its  *)
(* result from a canonical success response.                               *)
PutSuccessConstructed ==
  \E t \in Callers :
    /\ pc[t] = "constructed"
    /\ call[t].op = "cache_put"
    /\ call[t].args.value.t = "dict"
    /\ response[t].said.status_code = 0
    /\ heap[result[t]].status = 0

(* C12: a response with a nonzero status s and the error string e parses   *)
(* without a field being read, and the result built from it and returned   *)
(* has the status s, the text e as the server wrote it, and no value.      *)
Failure(frame, r) ==
  \E e \in ErrorTexts \cup OtherTexts :
    /\ frame.error_message = EncodeString(e)
    /\ r = [status |-> frame.status_code, message |-> e, value |-> None]

ErrorReportedVerbatim ==
  [][\A t \in Callers :
       /\ ReadsResponse(t) /\ Head(incoming).said.status_code # 0
            => /\ pc'[t] = "parsed"
               /\ response'[t].frame = Head(incoming).said
       /\ pc[t] = "parsed" /\ pc'[t] # "parsed"
             /\ response[t].said.status_code # 0
            => /\ pc'[t] = "constructed"
               /\ Failure(response[t].said, heap'[result'[t]])
       /\ pc[t] = "constructed" /\ pc'[t] # "constructed"
             /\ response[t].said.status_code # 0
            => /\ pc'[t] = "returned"
               /\ result'[t] = result[t]
               /\ Failure(response[t].said, heap'[result[t]])]_vars

(* C12 witness: a result with status -1 and the text "not found" has been  *)
(* returned by a second call.                                              *)
NotFoundReturned ==
  \E t \in Callers :
    /\ Returned(t)
    /\ ncalls = 2
    /\ heap[result[t]] =
         [status |-> -1, message |-> NotFound, value |-> None]

(* C13: the hash_code a wrapper sends for a cache name is the 32-bit       *)
(* polynomial hash of the name's code units: it equals the reference       *)
(* computation (the sum kept as four bytes; for names too short to wrap,   *)
(* also the sum in plain integers), lies in the int32 range, is 0 for the  *)
(* empty name and 69609650 for "Hello", whatever calls came before.        *)
RefStep(d, code_unit) ==
  LET t1 == 31 * d[1] + (code_unit % 256)
      t2 == 31 * d[2] + (code_unit \div 256) + (t1 \div 256)
      t3 == 31 * d[3] + (t2 \div 256)
      t4 == 31 * d[4] + (t3 \div 256)
  IN << t1 % 256, t2 % 256, t3 % 256, t4 % 256 >>

RECURSIVE RefLoop(_, _)
RefLoop(s, d) == IF s = << >> THEN d ELSE RefLoop(Tail(s), RefStep(d, Head(s)))

ReferenceHash(s) == FromLE(RefLoop(s, <<0, 0, 0, 0>>))

RECURSIVE PlainHash(_, _)
PlainHash(s, h) == IF s = << >> THEN h ELSE PlainHash(Tail(s), 31 * h + Head(s))

HasHashCode(op) ==
  op \in Ops /\ OpTable[op].shape \notin {"name", "empty", "create",
                                          "get_or_create"}

NamedCall(t) ==
  InCall(t) /\ HasHashCode(call[t].op) /\ call[t].args.cache.t = "str"

HashMatchesReference ==
  \A t \in Callers :
    NamedCall(t) =>
      LET name == call[t].args.cache.v
          h == send_buffer[t].body[1].value.v
      IN /\ h = ReferenceHash(name)
         /\ Len(name) <= 3 => h = PlainHash(name, 0)
         /\ h >= -2147483647 - 1 /\ h <= 2147483647
         /\ name = << >> => h = 0
         /\ name = Hello => h = 69609650

(* C13 witness: a second call has hashed a name whose hash wraps around    *)
(* to a negative number.                                                   *)
LongNameHashedLater ==
  \E t \in Callers :
    /\ NamedCall(t)
    /\ ncalls = 2
    /\ call[t].args.cache.v = LongName
    /\ send_buffer[t].body[1].value.v < 0

(* C14: the hash_code on the wire is the number itself when the cache is   *)
(* given by number, and the hash of the name when it is given by name.     *)
HashCodeOnWire(t) == Decode("Int", send_buffer[t].bytes, 15)

NumericIdSkipsHash ==
  \A t \in Callers :
    InCall(t) /\ HasHashCode(call[t].op) =>
      LET cache == call[t].args.cache
      IN /\ HashCodeOnWire(t).ok
         /\ HashCodeOnWire(t).value =
              IF cache.t = "str" THEN PyInt(hashcode(cache.v)) ELSE cache
         /\ send_buffer[t].body[1].type = "Int"
         /\ send_buffer[t].body[1].value = HashCodeOnWire(t).value

(* C14 witness: cache_get has been called with the number that "Hello"    *)
(* hashes to, or cache_destroy with a negative number.                     *)
NumericIdGiven ==
  \E t \in Callers :
    /\ pc[t] = "built"
    /\ \/ call[t].op = "cache_get" /\ call[t].args.cache = PyInt(69609650)
       \/ call[t].op = "cache_destroy" /\ call[t].args.cache = PyInt(-1)

(* C15: the query id on the wire is the one the caller supplied, whatever  *)
(* it is; when the caller supplied none it is a generated one, which is    *)
(* not 0.                                                                  *)
QueryIdOnWire(t) == RequestHeader(send_buffer[t].bytes).query_id

QueryIdCarried ==
  \A t \in Callers :
    InCall(t) =>
      /\ QueryIdOnWire(t) = send_buffer[t].query_id
      /\ IF call[t].args.query_id = None
           THEN QueryIdOnWire(t) # 0 /\ QueryIdOnWire(t) \in GeneratedIds
           ELSE QueryIdOnWire(t) = call[t].args.query_id.v

(* C15 witness: a request with a supplied, negative query id has been      *)
(* built.                                                                  *)
SuppliedQueryIdBuilt ==
  \E t \in Callers :
    pc[t] = "built" /\ call[t].args.query_id = PyInt(-2)

(* C16: the first four bytes of every request, read as a little-endian     *)
(* integer, are the number of bytes that follow them: two of the operation *)
(* code, eight of the query id, and the encoded body.                      *)
LengthCountsRest(bytes) ==
  /\ Len(bytes) >= 14
  /\ RequestHeader(bytes).length = Len(bytes) - 4

FrameLengthCountsRest ==
  /\ \A t \in Callers :
       InCall(t) =>
         /\ LengthCountsRest(send_buffer[t].bytes)
         /\ RequestHeader(send_buffer[t].bytes).op_code =
              OpCodes[OpTable[call[t].op].op_code]
  /\ \A i \in 1..Len(sent) : LengthCountsRest(sent[i].frame.bytes)

(* C16 witness: a request with a list as its value is on the connection.   *)
ListValueSent ==
  /\ sent # << >>
  /\ \E t \in Callers :
       pc[t] = "sent" /\ call[t].op = "cache_put"
         /\ call[t].args.value.t = "list" /\ call[t].args.value.v # << >>

(* C17: every value a request carries decodes, under the type it was       *)
(* encoded with, to an equal value, using up exactly the bytes encode      *)
(* made; so does the body as a whole; and the fields a well-formed         *)
(* response was encoded from are the fields the caller decodes.            *)
RoundTripsAs(type, v) ==
  LET bytes == Encode(type, v)
      d == Decode(type, bytes, 1)
  IN d.ok /\ d.value = v /\ d.pos = Len(bytes) + 1

EndsWithoutResult(t, errors) ==
  /\ pc'[t] = "raised"
  /\ raised'[t] \in errors
  /\ result'[t] = 0
  /\ heap' = heap

ProtocolViolationIsFatal ==
  [][\A t \in Callers :
       ReadsResponse(t) /\ Head(incoming).said.status_code = 0
                        /\ Head(incoming).origin = callno[t] =>
         LET entry == Head(incoming)
             schema == OpTable[call[t].op].response
         IN /\ entry.fault = "none" =>
                 /\ pc'[t] = "parsed"
                 /\ response'[t].frame.body = entry.said.body
                 /\ Len(entry.said.body) = Len(schema)
            /\ entry.fault = "trailing" =>
                 EndsWithoutResult(t, {"DecodeError: trailing bytes"})
            /\ entry.fault = "truncated" =>
                 EndsWithoutResult(t, {"DecodeError: truncated buffer"})]_vars

(* C18 witness: a second call has been ended by bytes left after the last  *)
(* field.                                                                  *)
TrailingBytesRaised ==
  \E t \in Callers :
    /\ pc[t] = "raised"
    /\ raised[t] = "DecodeError: trailing bytes"
    /\ recvs[t] = 1
    /\ ncalls = 2

(* C19: a response that carries a type code outside the table ends the     *)
(* call with a DecodeError; the wrapper constructs no result and returns   *)
(* no value, null or other.                                                *)
UnknownCodeRaises ==
  [][/\ ~Decode("AnyDataObject", << UnknownCode >>, 1).ok
     /\ \A t \in Callers :
          ReadsResponse(t) /\ Head(incoming).fault = "unknown_code" =>
            EndsWithoutResult(t, {"DecodeError: unknown type-code"})]_vars

(* C19 witness: a call has been ended by a type code outside the table.    *)
UnknownCodeRaised ==
  \E t \in Callers :
    pc[t] = "raised" /\ raised[t] = "DecodeError: unknown type-code"

(* C20: in every call, however it ends, the request is written to the      *)
(* connection at most once and a response is read from it at most once;    *)
(* a call that has read has written, and a call neither writes nor reads   *)
(* after it has ended.                                                     *)
NoRetry ==
  [][\A t \in Callers :
       /\ sends'[t] <= 1
       /\ recvs'[t] <= sends'[t]
       /\ pc[t] \in {"returned", "raised"} /\ ncalls' = ncalls =>
            sends'[t] = sends[t] /\ recvs'[t] = recvs[t]
       /\ pc[t] \in {"sent", "parsed", "constructed"} =>
            pc'[t] # "built" /\ sends'[t] = sends[t]]_vars

(* C20 witness: a second call has been ended by a decode error after one  *)
(* write and one read, with nothing left on the connection.                *)
DecodeErrorAfterOneRead ==
  \E t \in Callers :
    /\ pc[t] = "raised"
    /\ raised[t] \in DecodeErrors
    /\ sends[t] = 1
    /\ recvs[t] = 1
    /\ sent = << >>
    /\ incoming = << >>
    /\ ncalls = 2
    /\ heap = << >>

(* C21: a call that finds the transport broken when it sends its request   *)
(* or when it waits for the response ends with the ConnectionError the     *)
(* transport raised: it constructs no result, returns none, and no status  *)
(* or value stands in for the error.                                       *)
TransportFails(t) ==
  /\ ~connected
  /\ pc[t] \in {"built", "sent"}
  /\ pc'[t] # pc[t]

ConnectionErrorPropagates ==
  [][\A t \in Callers :
       /\ TransportFails(t) =>
            /\ EndsWithoutResult(t, {"ConnectionError"})
            /\ sent' = sent /\ incoming' = incoming
            /\ sends'[t] = sends[t] /\ recvs'[t] = recvs[t]
       /\ pc[t] = "raised" /\ raised[t] = "ConnectionError"
             /\ ncalls' = ncalls =>
            pc'[t] = "raised" /\ raised'[t] = "ConnectionError"
              /\ result'[t] = 0]_vars

(* C21 witness: a call has been ended by a ConnectionError while it waited *)
(* for the response to a request it had sent.                              *)
ReceiveFailed ==
  \E t \in Callers :
    /\ pc[t] = "raised"
    /\ raised[t] = "ConnectionError"
    /\ sends[t] = 1
    /\ recvs[t] = 0
    /\ result[t] = 0
    /\ ~connected

(* C22: in every call the request is encoded in full first, then written   *)
(* to the connection whole and as encoded, then the response is read, then *)
(* the result is constructed: a call moves through these steps in this     *)
(* order only, writes only a request it has built, reads only after it has *)
(* written, and constructs its result only after it has read.              *)
StepsInOrder ==
  { <<from, "built">> : from \in {"idle", "returned", "raised"} }
    \cup { <<from, "raised">> :
             from \in {"idle", "returned", "raised", "built", "sent"} }
    \cup { <<"built", "sent">>, <<"sent", "parsed">>,
           <<"parsed", "constructed">>, <<"constructed", "returned">> }

WrapperOrder ==
  [][\A t \in Callers :
       /\ pc'[t] # pc[t] => <<pc[t], pc'[t]>> \in StepsInOrder
       /\ pc'[t] = "built" =>
            /\ LengthCountsRest(send_buffer'[t].bytes)
            /\ sends'[t] = 0 /\ recvs'[t] = 0 /\ result'[t] = 0
       /\ sends'[t] > sends[t] =>
            /\ pc[t] = "built" /\ pc'[t] = "sent"
            /\ sent' = Append(sent, [frame |-> send_buffer[t],
                                     origin |-> callno[t]])
            /\ recvs[t] = 0
       /\ recvs'[t] > recvs[t] =>
            /\ pc[t] = "sent"
            /\ sends[t] = 1
            /\ result[t] = 0
       /\ result'[t] # result[t] /\ result'[t] # 0 =>
            /\ pc[t] = "parsed" /\ pc'[t] = "constructed"
            /\ sends[t] = 1 /\ recvs[t] = 1]_vars

(* C22 witness: a second call has returned its result after one write and  *)
(* one read while another call was waiting for its response.               *)
OrderedCallReturned ==
  \E t \in Callers :
    /\ Returned(t)
    /\ sends[t] = 1
    /\ recvs[t] = 1
    /\ ncalls = 2
    /\ \E u \in Callers \ {t} : pc[u] = "sent"

(* C23: a call whose request cannot be encoded (a value that no type       *)
(* takes, or an integer too large for its declared type) ends with an      *)
(* EncodeError before the connection is used: nothing is written and       *)
(* nothing is read; and every frame that is written is a whole request,    *)
(* every field of which could be encoded.                                  *)
WholeRequest(frame) ==
  /\ LengthCountsRest(frame.bytes)
  /\ frame.bytes = encode_request(frame.op_code, frame.query_id, frame.body)
  /\ \A i \in 1..Len(frame.body) :
       Encodable(frame.body[i].type, frame.body[i].value)

EncodeErrorSendsNothing ==
  [][\A t \in Callers :
       /\ ncalls' # ncalls /\ pc'[t] = "raised"
             /\ raised'[t] = "EncodeError" =>
            /\ sent' = sent /\ incoming' = incoming
            /\ connected' = connected
            /\ sends'[t] = 0 /\ recvs'[t] = 0
            /\ result'[t] = 0 /\ heap' = heap
       /\ ncalls' # ncalls /\ pc'[t] = "built" =>
            WholeRequest(send_buffer'[t]) /\ sent' = sent
       /\ Len(sent') > Len(sent) =>
            /\ Len(sent') = Len(sent) + 1
            /\ WholeRequest(sent'[Len(sent')].frame)]_vars

(* C23 witness: a second call has been ended by an EncodeError while the   *)
(* connection works and holds nothing.                                     *)
EncodeErrorRaised ==
  \E t \in Callers :
    /\ pc[t] = "raised"
    /\ raised[t] = "EncodeError"
    /\ ncalls = 2
    /\ sends[t] = 0
    /\ connected
    /\ sent = << >>

(* C24: in the request of each of the 21 key-value wrappers the second     *)
(* field of the body is the flag, a byte, directly after hash_code; it is  *)
(* 1 when the binary argument is true in Python's sense and 0 when it is   *)
(* not, in the query's values and in the bytes of the request.             *)
FlagFor(binary) ==
  IF binary \in {PyBool(FALSE), None, PyInt(0), PyStr(<< >>)} THEN 0 ELSE 1

FlagByteSecond ==
  /\ Cardinality(KeyValueOps) = 21
  /\ \A t \in Callers :
       InCall(t) /\ call[t].op \in KeyValueOps =>
         LET body == send_buffer[t].body
             bytes == send_buffer[t].bytes
             flag == FlagFor(call[t].args.binary)
             hash_code == Decode("Int", bytes, 15)
         IN /\ Len(body) >= 2
            /\ body[1] = [type |-> "Int",
                          value |-> PyInt(cache_id(call[t].args.cache))]
            /\ body[2] = [type |-> "Byte", value |-> PyInt(flag)]
            /\ hash_code.ok /\ hash_code.value = body[1].value
            /\ hash_code.pos = 20
            /\ Decode("Byte", bytes, 20) = Decoded("Byte", PyInt(flag), 22)
            /\ bytes[21] = flag

(* C24 witness: cache_clear has built its request with binary given as a   *)
(* number other than 0 and 1, and the flag byte is 1.                      *)
TruthyBinaryBuilt ==
  \E t \in Callers :
    /\ pc[t] = "built"
    /\ call[t].op = "cache_clear"
    /\ call[t].args.binary = PyInt(2)
    /\ send_buffer[t].bytes[21] = 1

(* C25: the peek_modes field of a cache_get_size request is always a       *)
(* sequence: a list or tuple given by the caller is the field as it is, a  *)
(* scalar that is 0 (False, which Python takes for 0, included) gives the  *)
(* empty list, and any other scalar m gives the list of m alone; the       *)
(* request bytes hold an array of exactly the elements of that sequence.   *)
PeekModesNormalized ==
  \A t \in Callers :
    InCall(t) /\ call[t].op = "cache_get_size" =>
      LET m == call[t].args.peek_modes
          body == send_buffer[t].body
          bytes == send_buffer[t].bytes
          d == Decode("PeekModes", bytes, 22)
      IN /\ Len(body) = 3
         /\ body[3].type = "PeekModes"
         /\ body[3].value.t \in {"list", "tuple"}
         /\ body[3].value =
              IF m.t \in {"list", "tuple"} THEN m
              ELSE IF m \in {PyInt(0), PyBool(FALSE)} THEN PyList(<< >>)
              ELSE PyList(<< m >>)
         /\ d.ok
         /\ d.value = PyList(body[3].value.v)
         /\ d.pos = Len(bytes) + 1
         /\ bytes[22] = TypeCode.PeekModes
         /\ FromLE(SubSeq(bytes, 23, 26)) = Len(body[3].value.v)

(* C25 witness: cache_get_size, called with the scalar 1, has sent a       *)
(* request whose peek_modes field is the list of 1 alone.                  *)
ScalarPeekModeSent ==
  \E t \in Callers :
    /\ pc[t] = "sent"
    /\ call[t].op = "cache_get_size"
    /\ call[t].args.peek_modes = PyInt(1)
    /\ send_buffer[t].body[3].value = PyList(<< PyInt(1) >>)

====
